---- MODULE Spec2Model ----
(***************************************************************************)
(* Model of the ICP escrow canister                                        *)
(* (src/icp_escrow/src/icp_escrow_backend/src/lib.rs).                      *)
(*                                                                         *)
(* The canister is single-threaded: a message runs until it returns or     *)
(* until it awaits an inter-canister call (the ICRC-1 ledger transfer or   *)
(* the EVM RPC request).  Each action below is one such uninterrupted      *)
(* execution: the entry of an update call up to its first await, or the    *)
(* continuation of a suspended call when the reply arrives.                *)
(*                                                                         *)
(* Widths are scaled: a byte holds ByteBase values instead of 256, so a    *)
(* u32 holds ByteBase^4 values and a u64 ByteBase^8.  The layout of the    *)
(* 32-byte timelocks word and all truncations are kept.                    *)
(* A 32-byte value (secret, hash, order hash) is a number below NumBytes32.*)
(***************************************************************************)
EXTENDS Integers, Sequences, FiniteSets, TLC

\* ------------------------------------------------------------------ bounds
ByteBase == 2
NumBytes32 == 2
MaxEscrows == 2
MaxTicks == 2
MaxCalls == 1
MaxLogs == 2

U32Mod == ByteBase * ByteBase * ByteBase * ByteBase
U64Mod == U32Mod * U32Mod

Bytes32 == 0 .. (NumBytes32 - 1)

\* Option<T>: None is the empty sequence, Some(x) is <<x>>.
None == << >>
Some(x) == << x >>
IsSome(o) == Len(o) = 1
Unwrap(o) == o[1]

\* `last.reply` of a step that did not return on the reply of an EVM RPC
\* request.
NoReply == [ kind |-> "none", error |-> FALSE, result |-> None ]

\* --------------------------------------------------------------- Timelocks
\* TimelockStage discriminants.
SrcWithdrawal == 0
SrcPublicWithdrawal == 1
SrcCancellation == 2
SrcPublicCancellation == 3
DstWithdrawal == 4
DstPublicWithdrawal == 5
DstCancellation == 6
TimelockStage == SrcWithdrawal .. DstCancellation

\* u32::to_be_bytes / u32::from_be_bytes, most significant byte first.
to_be_bytes(v) ==
  << (v \div (ByteBase * ByteBase * ByteBase)) % ByteBase,
     (v \div (ByteBase * ByteBase)) % ByteBase,
     (v \div ByteBase) % ByteBase,
     v % ByteBase >>

from_be_bytes(b) ==
  b[1] * (ByteBase * ByteBase * ByteBase) + b[2] * (ByteBase * ByteBase)
    + b[3] * ByteBase + b[4]

\* data[offset..offset + 4].copy_from_slice(bytes); Rust offsets are 0-based,
\* byte k of the array is data[k + 1] here.
copy_from_slice(data, offset, bytes) ==
  [k \in 1 .. 32 |->
     IF k > offset /\ k <= offset + 4 THEN bytes[k - offset] ELSE data[k]]

\* &data[offset..offset + 4]
slice4(data, offset) == [k \in 1 .. 4 |-> data[offset + k]]

RECURSIVE pack_stages(_, _, _)
pack_stages(data, stages, i) ==
  IF i >= Len(stages) THEN data
  ELSE pack_stages(copy_from_slice(data, i * 4, to_be_bytes(stages[i + 1])),
                   stages, i + 1)

\* Timelocks::new (the seven stage arguments are passed as one sequence).
Timelocks_new(stages, deployed_at) ==
  copy_from_slice(pack_stages([k \in 1 .. 32 |-> 0], stages, 0),
                  28, to_be_bytes(deployed_at))

\* Mutant: the sum is taken in 32 bits.
Timelocks_get_u32(data, stage) ==
  LET stage_value == from_be_bytes(slice4(data, stage * 4))
      deployed_at == from_be_bytes(slice4(data, 28))
  IN  (deployed_at + stage_value) % U32Mod

\* Timelocks::get
Timelocks_get(data, stage) ==
  LET stage_value == from_be_bytes(slice4(data, stage * 4))
      deployed_at == from_be_bytes(slice4(data, 28))
  IN  deployed_at + stage_value

\* Timelocks::set_deployed_at
set_deployed_at(data, deployed_at) ==
  copy_from_slice(data, 28, to_be_bytes(deployed_at))

\* Timelocks::deployed_at
Timelocks_deployed_at(data) == from_be_bytes(slice4(data, 28))

\* `x as u32`
as_u32(x) == x % U32Mod

\* Mutant: the whole value is taken.
u256_to_u64_whole(value) == value

\* u256_to_u64: the low 8 bytes of the 32-byte big-endian value.
u256_to_u64(value) == value % U64Mod

\* ---------------------------------------------------------------- hashlock
\* Keccak-256 over the small value space: injective, without fixed point.
Keccak256(x) == (x + 1) % NumBytes32

\* verify_hashlock
verify_hashlock(secret, hashlock) == Keccak256(secret) = hashlock

\* ------------------------------------------------------------------- state
VARIABLES
  escrows,         \* ESCROWS: escrow id -> EscrowState (id n is "escrow_n")
  escrow_counter,  \* ESCROW_COUNTER
  now,             \* api::time() / 1_000_000_000
  calls,           \* update calls suspended on an inter-canister call
  ledger_calls,    \* icrc1_transfer calls issued so far, in order
  last             \* the message execution that ran last and what it returned

vars == << escrows, escrow_counter, now, calls, ledger_calls, last >>

\* Error strings of the source (formatted numbers left out).
ErrInvalidInput == "Invalid order hash or hashlock"
ErrNotFound == "Escrow not found"
ErrAlreadyWithdrawn == "Escrow already withdrawn"
ErrAlreadyCancelled == "Escrow already cancelled"
ErrAlreadyCompleted == "Escrow already completed"
ErrInvalidSecret == "Invalid secret provided"
ErrDstWithdrawal == "DstWithdrawal timelock not met"
ErrDstPublicWithdrawal == "DstPublicWithdrawal timelock not met"
ErrCancelWithdrawn == "Cannot cancel: escrow already withdrawn"
ErrDstCancellation == "DstCancellation timelock not met"
ErrTransferFailed == "Token transfer failed"
ErrLedgerCall == "Failed to call ledger canister"
ErrParse == "Failed to parse EVM RPC response"
ErrRpc == "EVM RPC error"
ErrRpcCall == "Failed to call EVM RPC canister"
ErrAutoDisabled == "Auto-withdrawal not enabled for this escrow"
ErrNoSecret == "No secret revealed on EVM yet"

Ok == "Ok"
Pending == "pending"

\* Identifiers a caller may pass (those above escrow_counter are not found).
EscrowIds == 1 .. MaxEscrows

\* Mutant: the count is formatted without being incremented.
generate_escrow_id_no_increment(counter) == counter

\* Mutant: the counter is not advanced, every create gets "escrow_1".
generate_escrow_id_fixed(counter) == 1

\* generate_escrow_id: the string "escrow_<count>", kept as its number.
generate_escrow_id(counter) == counter + 1

\* ------------------------------------------------------------ create inputs
\* Deployment values a caller may have packed; create overwrites them.
CallerDeployedAt == { 0, 5 }

\* Immutables with the fields the model does not vary held fixed.
ImmutablesOf(order_hash, hashlock, timelocks) ==
  [ order_hash |-> order_hash, hashlock |-> hashlock, maker |-> 11,
    taker |-> 12, token |-> 0, amount |-> 7, safety_deposit |-> 1,
    timelocks |-> timelocks ]

\* The arguments callers pass to create: an escrow of a ledger token with
\* the ordered schedule and an amount that does not fit 64 bits, an escrow of
\* the native asset with the unordered one, and the three ways of leaving
\* order_hash or hashlock zero.
CreateArgs ==
  { [ immutables |->
        [ ImmutablesOf(1, Keccak256(0),
                       Timelocks_new(<< 0, 0, 0, 0, 1, 2, 2 >>, d))
            EXCEPT !.amount = U64Mod + 7 ],
      token_ledger |-> Some("ledger") ] : d \in CallerDeployedAt }
  \cup { [ immutables |->
             ImmutablesOf(1, Keccak256(0),
                          Timelocks_new(<< 0, 0, 0, 0, 2, 1, 1 >>, d)),
           token_ledger |-> None ] : d \in CallerDeployedAt }
  \cup { [ immutables |->
             ImmutablesOf(h[1], h[2],
                          Timelocks_new(<< 0, 0, 0, 0, 1, 2, 2 >>, 0)),
           token_ledger |-> None ] :
           h \in { << 0, 0 >>, << 0, Keccak256(0) >>, << 1, 0 >> } }

\* ----------------------------------------------------------------- create
\* The arguments of a create call, as `last` keeps them.
CreateCall(immutables, icp_recipient, token_ledger, evm_chain_id, evm_escrow_address) ==
  [ immutables |-> immutables, icp_recipient |-> icp_recipient,
    token_ledger |-> token_ledger, evm_chain_id |-> evm_chain_id,
    evm_escrow_address |-> evm_escrow_address ]

\* Mutant: the identifier is generated before the immutables are validated.
create_escrow_with_immutables_id_first(immutables, icp_recipient, token_ledger, evm_chain_id, evm_escrow_address) ==
  /\ escrow_counter < MaxEscrows
  /\ escrow_counter' = generate_escrow_id(escrow_counter)
  /\ IF immutables.order_hash = 0 \/ immutables.hashlock = 0
     THEN /\ last' = [ op |-> "create_escrow_with_immutables", phase |-> "call",
                       id |-> 0,
                       reply |-> NoReply,
                       arg |-> CreateCall(immutables, icp_recipient, token_ledger,
                                          evm_chain_id, evm_escrow_address),
                       res |-> ErrInvalidInput, val |-> None ]
          /\ escrows' = escrows
     ELSE LET escrow_id == generate_escrow_id(escrow_counter)
              escrow_state ==
                [ immutables |->
                    [ immutables EXCEPT !.timelocks =
                        set_deployed_at(immutables.timelocks, as_u32(now)) ],
                  icp_recipient |-> icp_recipient,
                  token_ledger |-> token_ledger,
                  deployed_at |-> now,
                  secret |-> None,
                  withdrawn |-> FALSE,
                  cancelled |-> FALSE,
                  evm_chain_id |-> evm_chain_id,
                  evm_escrow_address |-> evm_escrow_address,
                  auto_withdraw_enabled |-> TRUE ]
          IN  /\ escrows' = [ k \in DOMAIN escrows \cup { escrow_id } |->
                                IF k = escrow_id THEN escrow_state ELSE escrows[k] ]
              /\ last' = [ op |-> "create_escrow_with_immutables",
                           phase |-> "call", id |-> escrow_id,
                           reply |-> NoReply,
                           arg |-> CreateCall(immutables, icp_recipient,
                                              token_ledger, evm_chain_id,
                                              evm_escrow_address),
                           res |-> Ok, val |-> None ]
  /\ UNCHANGED << now, calls, ledger_calls >>

\* create_escrow_with_immutables
create_escrow_with_immutables(immutables, icp_recipient, token_ledger, evm_chain_id, evm_escrow_address) ==
  IF immutables.order_hash = 0 \/ immutables.hashlock = 0
  THEN /\ last' = [ op |-> "create_escrow_with_immutables", phase |-> "call",
                    id |-> 0,
                    reply |-> NoReply,
                    arg |-> CreateCall(immutables, icp_recipient, token_ledger,
                                       evm_chain_id, evm_escrow_address),
                    res |-> ErrInvalidInput, val |-> None ]
       /\ UNCHANGED << escrows, escrow_counter, now, calls, ledger_calls >>
  ELSE LET escrow_id == generate_escrow_id(escrow_counter)
           current_time == now
           timelocks == set_deployed_at(immutables.timelocks, as_u32(current_time))
           updated_immutables == [ immutables EXCEPT !.timelocks = timelocks ]
           escrow_state ==
             [ immutables |-> updated_immutables,
               icp_recipient |-> icp_recipient,
               token_ledger |-> token_ledger,
               deployed_at |-> current_time,
               secret |-> None,
               withdrawn |-> FALSE,
               cancelled |-> FALSE,
               evm_chain_id |-> evm_chain_id,
               evm_escrow_address |-> evm_escrow_address,
               auto_withdraw_enabled |-> TRUE ]
       IN  /\ escrow_counter < MaxEscrows
           /\ escrow_counter' = escrow_id
           \* HashMap::insert: replaces the value of a key already present
           /\ escrows' = [ k \in DOMAIN escrows \cup { escrow_id } |->
                             IF k = escrow_id THEN escrow_state ELSE escrows[k] ]
           /\ last' = [ op |-> "create_escrow_with_immutables", phase |-> "call",
                        id |-> escrow_id,
                        reply |-> NoReply,
                        arg |-> CreateCall(immutables, icp_recipient,
                                           token_ledger, evm_chain_id,
                                           evm_escrow_address),
                        res |-> Ok, val |-> None ]
           /\ UNCHANGED << now, calls, ledger_calls >>

CreateEscrow ==
  \E a \in CreateArgs :
    create_escrow_with_immutables(a.immutables, "recipient", a.token_ledger,
                                  84532, "0xescrow")

\* ------------------------------------------------- synchronous sections
\* Mutant: the DstWithdrawal timelock is not checked.
withdraw_section_no_timelock(map, escrow_id, secret, current_time) ==
  IF escrow_id \notin DOMAIN map THEN [ res |-> ErrNotFound, map |-> map ]
  ELSE LET escrow == map[escrow_id] IN
    IF escrow.withdrawn THEN [ res |-> ErrAlreadyWithdrawn, map |-> map ]
    ELSE IF escrow.cancelled THEN [ res |-> ErrAlreadyCancelled, map |-> map ]
    ELSE IF ~ verify_hashlock(secret, escrow.immutables.hashlock)
      THEN [ res |-> ErrInvalidSecret, map |-> map ]
    ELSE [ res |-> Ok,
           map |-> [ map EXCEPT ![escrow_id].withdrawn = TRUE,
                                ![escrow_id].secret = Some(secret) ] ]

\* Mutant: the secret is stored but the withdrawn flag is left for later.
withdraw_section_no_flag(map, escrow_id, secret, current_time) ==
  IF escrow_id \notin DOMAIN map THEN [ res |-> ErrNotFound, map |-> map ]
  ELSE LET escrow == map[escrow_id] IN
    IF escrow.withdrawn THEN [ res |-> ErrAlreadyWithdrawn, map |-> map ]
    ELSE IF escrow.cancelled THEN [ res |-> ErrAlreadyCancelled, map |-> map ]
    ELSE IF ~ verify_hashlock(secret, escrow.immutables.hashlock)
      THEN [ res |-> ErrInvalidSecret, map |-> map ]
    ELSE IF current_time < Timelocks_get(escrow.immutables.timelocks, DstWithdrawal)
      THEN [ res |-> ErrDstWithdrawal, map |-> map ]
    ELSE [ res |-> Ok,
           map |-> [ map EXCEPT ![escrow_id].secret = Some(secret) ] ]

\* Mutant: a withdrawal zeroes the amount of the record it pays out.
withdraw_section_zero_amount(map, escrow_id, secret, current_time) ==
  IF escrow_id \notin DOMAIN map THEN [ res |-> ErrNotFound, map |-> map ]
  ELSE LET escrow == map[escrow_id] IN
    IF escrow.withdrawn THEN [ res |-> ErrAlreadyWithdrawn, map |-> map ]
    ELSE IF escrow.cancelled THEN [ res |-> ErrAlreadyCancelled, map |-> map ]
    ELSE IF ~ verify_hashlock(secret, escrow.immutables.hashlock)
      THEN [ res |-> ErrInvalidSecret, map |-> map ]
    ELSE IF current_time < Timelocks_get(escrow.immutables.timelocks, DstWithdrawal)
      THEN [ res |-> ErrDstWithdrawal, map |-> map ]
    ELSE [ res |-> Ok,
           map |-> [ map EXCEPT ![escrow_id].withdrawn = TRUE,
                                ![escrow_id].secret = Some(secret),
                                ![escrow_id].immutables.amount = 0 ] ]

\* The closure of withdraw_with_secret run under ESCROWS.with: the result
\* string and the map it leaves behind.
withdraw_section(map, escrow_id, secret, current_time) ==
  IF escrow_id \notin DOMAIN map THEN [ res |-> ErrNotFound, map |-> map ]
  ELSE LET escrow == map[escrow_id] IN
    IF escrow.withdrawn THEN [ res |-> ErrAlreadyWithdrawn, map |-> map ]
    ELSE IF escrow.cancelled THEN [ res |-> ErrAlreadyCancelled, map |-> map ]
    ELSE IF ~ verify_hashlock(secret, escrow.immutables.hashlock)
      THEN [ res |-> ErrInvalidSecret, map |-> map ]
    ELSE IF current_time < Timelocks_get(escrow.immutables.timelocks, DstWithdrawal)
      THEN [ res |-> ErrDstWithdrawal, map |-> map ]
    ELSE [ res |-> Ok,
           map |-> [ map EXCEPT ![escrow_id].withdrawn = TRUE,
                                ![escrow_id].secret = Some(secret) ] ]

\* Mutant: a public withdrawal sets the flag and leaves the secret for later.
public_withdraw_section_flag_only(map, escrow_id, secret, current_time) ==
  IF escrow_id \notin DOMAIN map THEN [ res |-> ErrNotFound, map |-> map ]
  ELSE LET escrow == map[escrow_id] IN
    IF escrow.withdrawn \/ escrow.cancelled
      THEN [ res |-> ErrAlreadyCompleted, map |-> map ]
    ELSE IF ~ verify_hashlock(secret, escrow.immutables.hashlock)
      THEN [ res |-> ErrInvalidSecret, map |-> map ]
    ELSE IF current_time
              < Timelocks_get(escrow.immutables.timelocks, DstPublicWithdrawal)
      THEN [ res |-> ErrDstPublicWithdrawal, map |-> map ]
    ELSE [ res |-> Ok, map |-> [ map EXCEPT ![escrow_id].withdrawn = TRUE ] ]

\* Mutant: a public withdrawal does not verify the secret.
public_withdraw_section_no_secret_check(map, escrow_id, secret, current_time) ==
  IF escrow_id \notin DOMAIN map THEN [ res |-> ErrNotFound, map |-> map ]
  ELSE LET escrow == map[escrow_id] IN
    IF escrow.withdrawn \/ escrow.cancelled
      THEN [ res |-> ErrAlreadyCompleted, map |-> map ]
    ELSE IF current_time
              < Timelocks_get(escrow.immutables.timelocks, DstPublicWithdrawal)
      THEN [ res |-> ErrDstPublicWithdrawal, map |-> map ]
    ELSE [ res |-> Ok,
           map |-> [ map EXCEPT ![escrow_id].withdrawn = TRUE,
                                ![escrow_id].secret = Some(secret) ] ]

\* Mutant: only the cancelled flag is checked before a public withdrawal.
public_withdraw_section_no_withdrawn_check(map, escrow_id, secret, current_time) ==
  IF escrow_id \notin DOMAIN map THEN [ res |-> ErrNotFound, map |-> map ]
  ELSE LET escrow == map[escrow_id] IN
    IF escrow.cancelled
      THEN [ res |-> ErrAlreadyCompleted, map |-> map ]
    ELSE IF ~ verify_hashlock(secret, escrow.immutables.hashlock)
      THEN [ res |-> ErrInvalidSecret, map |-> map ]
    ELSE IF current_time
              < Timelocks_get(escrow.immutables.timelocks, DstPublicWithdrawal)
      THEN [ res |-> ErrDstPublicWithdrawal, map |-> map ]
    ELSE [ res |-> Ok,
           map |-> [ map EXCEPT ![escrow_id].withdrawn = TRUE,
                                ![escrow_id].secret = Some(secret) ] ]

\* The closure of public_withdraw_with_secret.
public_withdraw_section(map, escrow_id, secret, current_time) ==
  IF escrow_id \notin DOMAIN map THEN [ res |-> ErrNotFound, map |-> map ]
  ELSE LET escrow == map[escrow_id] IN
    IF escrow.withdrawn \/ escrow.cancelled
      THEN [ res |-> ErrAlreadyCompleted, map |-> map ]
    ELSE IF ~ verify_hashlock(secret, escrow.immutables.hashlock)
      THEN [ res |-> ErrInvalidSecret, map |-> map ]
    ELSE IF current_time
              < Timelocks_get(escrow.immutables.timelocks, DstPublicWithdrawal)
      THEN [ res |-> ErrDstPublicWithdrawal, map |-> map ]
    ELSE [ res |-> Ok,
           map |-> [ map EXCEPT ![escrow_id].withdrawn = TRUE,
                                ![escrow_id].secret = Some(secret) ] ]

\* Mutant: a cancellation is accepted at its stage time only.
cancel_section_expiring(map, escrow_id, current_time) ==
  IF escrow_id \notin DOMAIN map THEN [ res |-> ErrNotFound, map |-> map ]
  ELSE LET escrow == map[escrow_id] IN
    IF escrow.withdrawn THEN [ res |-> ErrCancelWithdrawn, map |-> map ]
    ELSE IF escrow.cancelled THEN [ res |-> ErrAlreadyCancelled, map |-> map ]
    ELSE IF current_time
              # Timelocks_get(escrow.immutables.timelocks, DstCancellation)
      THEN [ res |-> ErrDstCancellation, map |-> map ]
    ELSE [ res |-> Ok, map |-> [ map EXCEPT ![escrow_id].cancelled = TRUE ] ]

\* Mutant: a withdrawn escrow can still be cancelled.
cancel_section_no_withdrawn_check(map, escrow_id, current_time) ==
  IF escrow_id \notin DOMAIN map THEN [ res |-> ErrNotFound, map |-> map ]
  ELSE LET escrow == map[escrow_id] IN
    IF escrow.cancelled THEN [ res |-> ErrAlreadyCancelled, map |-> map ]
    ELSE IF current_time
              < Timelocks_get(escrow.immutables.timelocks, DstCancellation)
      THEN [ res |-> ErrDstCancellation, map |-> map ]
    ELSE [ res |-> Ok, map |-> [ map EXCEPT ![escrow_id].cancelled = TRUE ] ]

\* Mutant: a cancelled escrow can be cancelled again.
cancel_section_no_cancelled_check(map, escrow_id, current_time) ==
  IF escrow_id \notin DOMAIN map THEN [ res |-> ErrNotFound, map |-> map ]
  ELSE LET escrow == map[escrow_id] IN
    IF escrow.withdrawn THEN [ res |-> ErrCancelWithdrawn, map |-> map ]
    ELSE IF current_time
              < Timelocks_get(escrow.immutables.timelocks, DstCancellation)
      THEN [ res |-> ErrDstCancellation, map |-> map ]
    ELSE [ res |-> Ok, map |-> [ map EXCEPT ![escrow_id].cancelled = TRUE ] ]

\* Mutant: the cancellation bound is exclusive.
cancel_section_strict(map, escrow_id, current_time) ==
  IF escrow_id \notin DOMAIN map THEN [ res |-> ErrNotFound, map |-> map ]
  ELSE LET escrow == map[escrow_id] IN
    IF escrow.withdrawn THEN [ res |-> ErrCancelWithdrawn, map |-> map ]
    ELSE IF escrow.cancelled THEN [ res |-> ErrAlreadyCancelled, map |-> map ]
    ELSE IF current_time
              <= Timelocks_get(escrow.immutables.timelocks, DstCancellation)
      THEN [ res |-> ErrDstCancellation, map |-> map ]
    ELSE [ res |-> Ok, map |-> [ map EXCEPT ![escrow_id].cancelled = TRUE ] ]

\* The closure of cancel_escrow.
cancel_section(map, escrow_id, current_time) ==
  IF escrow_id \notin DOMAIN map THEN [ res |-> ErrNotFound, map |-> map ]
  ELSE LET escrow == map[escrow_id] IN
    IF escrow.withdrawn THEN [ res |-> ErrCancelWithdrawn, map |-> map ]
    ELSE IF escrow.cancelled THEN [ res |-> ErrAlreadyCancelled, map |-> map ]
    ELSE IF current_time
              < Timelocks_get(escrow.immutables.timelocks, DstCancellation)
      THEN [ res |-> ErrDstCancellation, map |-> map ]
    ELSE [ res |-> Ok, map |-> [ map EXCEPT ![escrow_id].cancelled = TRUE ] ]

\* ------------------------------------------------------ suspended calls
CallSlots == 1 .. MaxCalls

\* A free slot, or a call suspended at `await` ("transfer" or "rpc").
\* `hashlock` is the hashlock of the EscrowState clone held by the monitor.
IdleCall == [ op |-> "none", id |-> 0, await |-> "idle", arg |-> 0, hashlock |-> 0 ]

FreeSlots == { c \in CallSlots : calls[c].await = "idle" }

\* The slot a newly suspended call takes.
NewSlot == CHOOSE c \in FreeSlots : \A d \in FreeSlots : c <= d

\* transfer_icrc1_tokens, up to its await: the arguments of the
\* icrc1_transfer call (escrow_id is kept with them to tell the calls apart).
transfer_icrc1_tokens(escrow_id, ledger_canister, to, amount) ==
  [ escrow_id |-> escrow_id, ledger |-> ledger_canister, to |-> to,
    amount |-> amount ]

\* What follows a committed withdrawal (withdraw_with_secret 541-565, the
\* same in public_withdraw_with_secret 602-623): with a token ledger the
\* transfer is issued and the call suspends, without one the call returns Ok
\* at once.  `slot` is the slot the running call already holds (0 if none).
after_commit(op, phase, slot, escrow_id, secret, map) ==
  LET escrow == map[escrow_id]
      amount_u64 == u256_to_u64(escrow.immutables.amount)
  IN  IF IsSome(escrow.token_ledger)
      THEN /\ slot = 0 => FreeSlots # {}
           /\ ledger_calls' =
                Append(ledger_calls,
                       transfer_icrc1_tokens(escrow_id, Unwrap(escrow.token_ledger),
                                             escrow.icp_recipient, amount_u64))
           /\ calls' = [ calls EXCEPT ![IF slot = 0 THEN NewSlot ELSE slot] =
                           [ op |-> op, id |-> escrow_id, await |-> "transfer",
                             arg |-> secret, hashlock |-> 0 ] ]
           /\ last' = [ op |-> op, phase |-> phase, id |-> escrow_id,
                        reply |-> NoReply, arg |-> secret, res |-> Pending,
                        val |-> IF slot = 0 THEN None ELSE Some(secret) ]
      ELSE /\ ledger_calls' = ledger_calls
           /\ calls' = IF slot = 0 THEN calls
                       ELSE [ calls EXCEPT ![slot] = IdleCall ]
           /\ last' = [ op |-> op, phase |-> phase, id |-> escrow_id,
                        reply |-> NoReply, arg |-> secret, res |-> Ok,
                        val |-> IF slot = 0 THEN None ELSE Some(secret) ]

\* withdraw_with_secret, from its entry to its return or its await.
withdraw_with_secret(escrow_id, secret) ==
  LET r == withdraw_section(escrows, escrow_id, secret, now) IN
  /\ escrows' = r.map
  /\ IF r.res # Ok
     THEN /\ last' = [ op |-> "withdraw_with_secret", phase |-> "call",
                       id |-> escrow_id,
                       reply |-> NoReply, arg |-> secret, res |-> r.res,
                       val |-> None ]
          /\ UNCHANGED << calls, ledger_calls >>
     ELSE after_commit("withdraw_with_secret", "call", 0, escrow_id, secret,
                       r.map)
  /\ UNCHANGED << escrow_counter, now >>

\* public_withdraw_with_secret, from its entry to its return or its await.
public_withdraw_with_secret(escrow_id, secret) ==
  LET r == public_withdraw_section(escrows, escrow_id, secret, now) IN
  /\ escrows' = r.map
  /\ IF r.res # Ok
     THEN /\ last' = [ op |-> "public_withdraw_with_secret", phase |-> "call",
                       id |-> escrow_id,
                       reply |-> NoReply, arg |-> secret, res |-> r.res,
                       val |-> None ]
          /\ UNCHANGED << calls, ledger_calls >>
     ELSE after_commit("public_withdraw_with_secret", "call", 0, escrow_id,
                       secret, r.map)
  /\ UNCHANGED << escrow_counter, now >>

\* The reply of the ledger to a suspended withdrawal: transfer_icrc1_tokens
\* 370-387 and the `?` of its caller.
TransferResults == { Ok, ErrTransferFailed, ErrLedgerCall }

\* Mutant: a failed transfer rolls the withdrawal back.
transfer_reply_rollback(slot, result) ==
  /\ calls[slot].await = "transfer"
  /\ calls' = [ calls EXCEPT ![slot] = IdleCall ]
  /\ last' = [ op |-> calls[slot].op, phase |-> "transfer_reply",
               id |-> calls[slot].id,
               reply |-> NoReply, arg |-> calls[slot].arg, res |-> result,
               val |-> None ]
  /\ escrows' = IF result = Ok THEN escrows
                ELSE [ escrows EXCEPT ![calls[slot].id].withdrawn = FALSE,
                                      ![calls[slot].id].secret = None ]
  /\ UNCHANGED << escrow_counter, now, ledger_calls >>

transfer_reply(slot, result) ==
  /\ calls[slot].await = "transfer"
  /\ calls' = [ calls EXCEPT ![slot] = IdleCall ]
  /\ last' = [ op |-> calls[slot].op, phase |-> "transfer_reply",
               id |-> calls[slot].id,
               reply |-> NoReply, arg |-> calls[slot].arg, res |-> result,
               val |-> None ]
  /\ UNCHANGED << escrows, escrow_counter, now, ledger_calls >>

\* cancel_escrow: no ledger call is made, the refund is only printed.
cancel_escrow(escrow_id) ==
  LET r == cancel_section(escrows, escrow_id, now) IN
  /\ escrows' = r.map
  /\ last' = [ op |-> "cancel_escrow", phase |-> "call", id |-> escrow_id,
               reply |-> NoReply, arg |-> 0, res |-> r.res, val |-> None ]
  /\ UNCHANGED << escrow_counter, now, calls, ledger_calls >>

\* Mutant: the flag of a withdrawn or cancelled escrow cannot be changed.
set_auto_withdraw_active_only(escrow_id, enabled) ==
  /\ IF escrow_id \notin DOMAIN escrows
     THEN /\ escrows' = escrows
          /\ last' = [ op |-> "set_auto_withdraw", phase |-> "call",
                       id |-> escrow_id,
                       reply |-> NoReply, arg |-> IF enabled THEN 1 ELSE 0,
                       res |-> ErrNotFound, val |-> None ]
     ELSE IF escrows[escrow_id].withdrawn \/ escrows[escrow_id].cancelled
     THEN /\ escrows' = escrows
          /\ last' = [ op |-> "set_auto_withdraw", phase |-> "call",
                       id |-> escrow_id,
                       reply |-> NoReply, arg |-> IF enabled THEN 1 ELSE 0,
                       res |-> ErrAlreadyCompleted, val |-> None ]
     ELSE /\ escrows' = [ escrows EXCEPT ![escrow_id].auto_withdraw_enabled = enabled ]
          /\ last' = [ op |-> "set_auto_withdraw", phase |-> "call",
                       id |-> escrow_id,
                       reply |-> NoReply, arg |-> IF enabled THEN 1 ELSE 0,
                       res |-> Ok, val |-> None ]
  /\ UNCHANGED << escrow_counter, now, calls, ledger_calls >>

\* set_auto_withdraw
set_auto_withdraw(escrow_id, enabled) ==
  /\ IF escrow_id \notin DOMAIN escrows
     THEN /\ escrows' = escrows
          /\ last' = [ op |-> "set_auto_withdraw", phase |-> "call",
                       id |-> escrow_id,
                       reply |-> NoReply, arg |-> IF enabled THEN 1 ELSE 0,
                       res |-> ErrNotFound, val |-> None ]
     ELSE /\ escrows' = [ escrows EXCEPT ![escrow_id].auto_withdraw_enabled = enabled ]
          /\ last' = [ op |-> "set_auto_withdraw", phase |-> "call",
                       id |-> escrow_id,
                       reply |-> NoReply, arg |-> IF enabled THEN 1 ELSE 0,
                       res |-> Ok, val |-> None ]
  /\ UNCHANGED << escrow_counter, now, calls, ledger_calls >>

\* ------------------------------------------------------------- monitor
\* A LogEntry as far as the monitor reads it: the number of topics, whether
\* topics[2] hex-decodes to exactly 32 bytes, and the decoded value.
LogEntry ==
  { [ ntopics |-> 2, decodes |-> TRUE, topic2 |-> 0 ],
    [ ntopics |-> 3, decodes |-> FALSE, topic2 |-> 0 ] }
  \cup { [ ntopics |-> 3, decodes |-> TRUE, topic2 |-> b ] : b \in Bytes32 }

LogLists == UNION { [ 1 .. n -> LogEntry ] : n \in 0 .. MaxLogs }

\* What the await of the EVM RPC request can yield: a failed call, an
\* RpcResult::Err, or a response string that parses as GetLogsResponse
\* (with `result` and `error` present or not) or does not parse.
RpcReplies ==
  { [ kind |-> k, error |-> FALSE, result |-> None ] :
      k \in { "call_error", "rpc_err", "unparseable" } }
  \cup { [ kind |-> "json", error |-> FALSE, result |-> r ] :
           r \in { None } \cup { Some(l) : l \in LogLists } }
  \cup { [ kind |-> "json", error |-> TRUE, result |-> r ] :
           r \in { None, Some(<< >>) } }

\* Mutant: the loop ends at the first entry that carries a third topic.
RECURSIVE scan_logs_first_topic(_, _, _)
scan_logs_first_topic(logs, i, hashlock) ==
  IF i > Len(logs) THEN None
  ELSE LET log == logs[i] IN
    IF log.ntopics >= 3 /\ log.decodes
    THEN IF Keccak256(log.topic2) = hashlock THEN Some(log.topic2) ELSE None
    ELSE scan_logs_first_topic(logs, i + 1, hashlock)

\* The loop over the logs (monitor_evm_secret_revelation 801-831) from
\* entry i on: the first third topic that hashes to the hashlock.
RECURSIVE scan_logs(_, _, _)
scan_logs(logs, i, hashlock) ==
  IF i > Len(logs) THEN None
  ELSE LET log == logs[i] IN
    IF log.ntopics >= 3 /\ log.decodes /\ Keccak256(log.topic2) = hashlock
    THEN Some(log.topic2)
    ELSE scan_logs(logs, i + 1, hashlock)

\* The match on the reply (monitor_evm_secret_revelation 791-848).
monitor_result(reply, hashlock) ==
  IF reply.kind = "call_error" THEN [ res |-> ErrRpcCall, val |-> None ]
  ELSE IF reply.kind = "rpc_err" THEN [ res |-> ErrRpc, val |-> None ]
  ELSE IF reply.kind = "unparseable" THEN [ res |-> ErrParse, val |-> None ]
  ELSE IF IsSome(reply.result)
    THEN [ res |-> Ok, val |-> scan_logs(Unwrap(reply.result), 1, hashlock) ]
  ELSE [ res |-> Ok, val |-> None ]

\* Mutant: the query is issued for a withdrawn or cancelled escrow too.
monitor_entry_no_terminal_check(op, escrow_id) ==
  IF escrow_id \notin DOMAIN escrows
  THEN /\ last' = [ op |-> op, phase |-> "call", id |-> escrow_id,
                    reply |-> NoReply, arg |-> 0,
                    res |-> ErrNotFound, val |-> None ]
       /\ calls' = calls
  ELSE /\ FreeSlots # {}
       /\ calls' = [ calls EXCEPT ![NewSlot] =
                       [ op |-> op, id |-> escrow_id, await |-> "rpc",
                         arg |-> 0,
                         hashlock |-> escrows[escrow_id].immutables.hashlock ] ]
       /\ last' = [ op |-> op, phase |-> "call", id |-> escrow_id,
                    reply |-> NoReply, arg |-> 0,
                    res |-> Pending, val |-> None ]

\* monitor_evm_secret_revelation up to its await (740-789), run for the
\* update call `op`: an error string, or Pending with the call suspended.
monitor_entry(op, escrow_id) ==
  IF escrow_id \notin DOMAIN escrows
  THEN /\ last' = [ op |-> op, phase |-> "call", id |-> escrow_id,
                    reply |-> NoReply, arg |-> 0,
                    res |-> ErrNotFound, val |-> None ]
       /\ calls' = calls
  ELSE IF escrows[escrow_id].withdrawn \/ escrows[escrow_id].cancelled
  THEN /\ last' = [ op |-> op, phase |-> "call", id |-> escrow_id,
                    reply |-> NoReply, arg |-> 0,
                    res |-> ErrAlreadyCompleted, val |-> None ]
       /\ calls' = calls
  ELSE /\ FreeSlots # {}
       /\ calls' = [ calls EXCEPT ![NewSlot] =
                       [ op |-> op, id |-> escrow_id, await |-> "rpc",
                         arg |-> 0,
                         hashlock |-> escrows[escrow_id].immutables.hashlock ] ]
       /\ last' = [ op |-> op, phase |-> "call", id |-> escrow_id,
                    reply |-> NoReply, arg |-> 0,
                    res |-> Pending, val |-> None ]

monitor_evm_secret_revelation(escrow_id) ==
  /\ monitor_entry("monitor_evm_secret_revelation", escrow_id)
  /\ UNCHANGED << escrows, escrow_counter, now, ledger_calls >>

\* Mutant: auto_withdraw_enabled is not consulted.
auto_withdraw_on_evm_secret_no_enabled_check(escrow_id) ==
  /\ monitor_entry("auto_withdraw_on_evm_secret", escrow_id)
  /\ UNCHANGED << escrows, escrow_counter, now, ledger_calls >>

\* auto_withdraw_on_evm_secret up to its first await (853-864).
auto_withdraw_on_evm_secret(escrow_id) ==
  /\ IF escrow_id \notin DOMAIN escrows
     THEN /\ last' = [ op |-> "auto_withdraw_on_evm_secret", phase |-> "call",
                       id |-> escrow_id,
                       reply |-> NoReply, arg |-> 0, res |-> ErrNotFound,
                       val |-> None ]
          /\ calls' = calls
     ELSE IF ~ escrows[escrow_id].auto_withdraw_enabled
     THEN /\ last' = [ op |-> "auto_withdraw_on_evm_secret", phase |-> "call",
                       id |-> escrow_id,
                       reply |-> NoReply, arg |-> 0, res |-> ErrAutoDisabled,
                       val |-> None ]
          /\ calls' = calls
     ELSE monitor_entry("auto_withdraw_on_evm_secret", escrow_id)
  /\ UNCHANGED << escrows, escrow_counter, now, ledger_calls >>

\* The reply of the EVM RPC canister to a suspended call: the rest of
\* monitor_evm_secret_revelation and, for auto_withdraw_on_evm_secret, the
\* rest of it up to its return or to the await of the transfer (864-871).
rpc_reply(slot, reply) ==
  LET call == calls[slot]
      m == monitor_result(reply, call.hashlock)
  IN
  /\ call.await = "rpc"
  /\ IF call.op = "monitor_evm_secret_revelation"
     THEN /\ calls' = [ calls EXCEPT ![slot] = IdleCall ]
          /\ last' = [ op |-> call.op, phase |-> "rpc_reply", id |-> call.id,
                       reply |-> reply, arg |-> 0, res |-> m.res, val |-> m.val ]
          /\ UNCHANGED << escrows, ledger_calls >>
     ELSE IF m.res # Ok
     THEN /\ calls' = [ calls EXCEPT ![slot] = IdleCall ]
          /\ last' = [ op |-> call.op, phase |-> "rpc_reply", id |-> call.id,
                       reply |-> reply, arg |-> 0, res |-> m.res, val |-> None ]
          /\ UNCHANGED << escrows, ledger_calls >>
     ELSE IF ~ IsSome(m.val)
     THEN /\ calls' = [ calls EXCEPT ![slot] = IdleCall ]
          /\ last' = [ op |-> call.op, phase |-> "rpc_reply", id |-> call.id,
                       reply |-> reply, arg |-> 0, res |-> ErrNoSecret, val |-> None ]
          /\ UNCHANGED << escrows, ledger_calls >>
     ELSE LET secret == Unwrap(m.val)
              r == withdraw_section(escrows, call.id, secret, now)
          IN  /\ escrows' = r.map
              /\ IF r.res # Ok
                 THEN /\ calls' = [ calls EXCEPT ![slot] = IdleCall ]
                      /\ last' = [ op |-> call.op, phase |-> "rpc_reply",
                                   id |-> call.id,
                                   reply |-> NoReply, arg |-> secret,
                                   res |-> r.res, val |-> m.val ]
                      /\ ledger_calls' = ledger_calls
                 ELSE after_commit(call.op, "rpc_reply", slot, call.id, secret,
                                   r.map)
  /\ UNCHANGED << escrow_counter, now >>

\* ------------------------------------------------------------------ clock
\* The clock of the subnet moves on between messages.
StartTimes == { 0 }

\* Start times at which the seconds of the clock are about to pass the
\* largest u32.
LateStartTimes == { U32Mod - 1 }

Tick ==
  /\ \E t0 \in StartTimes \cup LateStartTimes : t0 <= now /\ now < t0 + MaxTicks
  /\ now' = now + 1
  /\ UNCHANGED << escrows, escrow_counter, calls, ledger_calls, last >>

\* ---------------------------------------------------------- specification
Init ==
  /\ escrows = << >>
  /\ escrow_counter = 0
  /\ now \in StartTimes
  /\ calls = [ c \in CallSlots |-> IdleCall ]
  /\ ledger_calls = << >>
  /\ last = [ op |-> "init", phase |-> "call", id |-> 0,
              reply |-> NoReply, arg |-> 0,
              res |-> Ok, val |-> None ]

Withdraw == \E id \in EscrowIds, secret \in Bytes32 : withdraw_with_secret(id, secret)
PublicWithdraw ==
  \E id \in EscrowIds, secret \in Bytes32 : public_withdraw_with_secret(id, secret)
Cancel == \E id \in EscrowIds : cancel_escrow(id)
SetAutoWithdraw ==
  \E id \in EscrowIds, enabled \in BOOLEAN : set_auto_withdraw(id, enabled)
Monitor == \E id \in EscrowIds : monitor_evm_secret_revelation(id)
AutoWithdraw == \E id \in EscrowIds : auto_withdraw_on_evm_secret(id)
TransferReply ==
  \E slot \in CallSlots, result \in TransferResults : transfer_reply(slot, result)
RpcReply == \E slot \in CallSlots, reply \in RpcReplies : rpc_reply(slot, reply)

Next ==
  \/ CreateEscrow
  \/ Withdraw
  \/ PublicWithdraw
  \/ Cancel
  \/ SetAutoWithdraw
  \/ Monitor
  \/ AutoWithdraw
  \/ TransferReply
  \/ RpcReply
  \/ Tick

Spec == Init /\ [][Next]_vars

\* The same canister installed when the clock is about to pass the largest u32.
InitLate ==
  /\ escrows = << >>
  /\ escrow_counter = 0
  /\ now \in LateStartTimes
  /\ calls = [ c \in CallSlots |-> IdleCall ]
  /\ ledger_calls = << >>
  /\ last = [ op |-> "init", phase |-> "call", id |-> 0,
              reply |-> NoReply, arg |-> 0,
              res |-> Ok, val |-> None ]

SpecLate == InitLate /\ [][Next]_vars

\* ------------------------------------------------- string entry points
\* A hex string after its "0x" prefix is trimmed: its characters.  HexLen
\* characters spell one 32-byte value (64 in the program).
HexLen == 1

ErrHexLength == "Hex string must be 32 bytes (64 hex characters)"
ErrHexChar == "Invalid hex character"
ErrAddressLength == "Invalid EVM address length"
ErrAddressHex == "Invalid hex in address"

\* The overflow panic of `+` on u32 in a build with overflow checks.
Panic == "attempt to add with overflow"

HexDigits == { ToString(v) : v \in 0 .. NumBytes32 - 1 }

\* u8::from_str_radix over the digits of the small value space.
from_str_radix(ch) == CHOOSE v \in 0 .. NumBytes32 - 1 : ToString(v) = ch

\* hex_to_bytes32
hex_to_bytes32(hex) ==
  IF Len(hex) # HexLen THEN [ res |-> ErrHexLength, val |-> 0 ]
  ELSE IF \E i \in 1 .. Len(hex) : hex[i] \notin HexDigits
    THEN [ res |-> ErrHexChar, val |-> 0 ]
  ELSE [ res |-> Ok, val |-> from_str_radix(hex[1]) ]

\* evm_address_to_bytes: the address is kept in the low bytes of the word.
evm_address_to_bytes(address_str) ==
  IF Len(address_str) # HexLen THEN [ res |-> ErrAddressLength, val |-> 0 ]
  ELSE IF \E i \in 1 .. Len(address_str) : address_str[i] \notin HexDigits
    THEN [ res |-> ErrAddressHex, val |-> 0 ]
  ELSE [ res |-> Ok, val |-> from_str_radix(address_str[1]) ]

\* u64_to_u256: the value in the low 8 bytes of a zeroed word.
u64_to_u256(value) == value % U64Mod

\* `a + b` on u32: the sum when it fits; past the largest u32 the build
\* either panics (overflow checks on) or wraps (overflow checks off).
add_u32(a, b) ==
  IF a + b < U32Mod THEN { [ panics |-> FALSE, val |-> a + b ] }
  ELSE { [ panics |-> TRUE, val |-> 0 ],
         [ panics |-> FALSE, val |-> (a + b) % U32Mod ] }

\* What a string entry point leaves in `last` when it returns before it
\* reaches create_escrow_with_immutables, or traps.
EntryFailed(op, res) ==
  /\ last' = [ op |-> op, phase |-> "call", id |-> 0, reply |-> NoReply,
               arg |-> 0, res |-> res, val |-> None ]
  /\ UNCHANGED << escrows, escrow_counter, now, calls, ledger_calls >>

\* create_escrow_with_hex_secret: dst_cancellation is passed where
\* Timelocks::new takes dst_public_withdrawal, and dst_cancellation + 1 where
\* it takes dst_cancellation (1026-1032 against 161-170).
create_escrow_with_hex_secret(order_hash_hex, hashlock_hex, maker, taker, amount, dst_withdrawal, dst_cancellation, icp_recipient, evm_chain_id, evm_escrow_address) ==
  LET op == "create_escrow_with_hex_secret"
      order_hash == hex_to_bytes32(order_hash_hex)
      hashlock == hex_to_bytes32(hashlock_hex)
      maker_addr == evm_address_to_bytes(maker)
      taker_addr == evm_address_to_bytes(taker)
  IN  IF order_hash.res # Ok THEN EntryFailed(op, order_hash.res)
      ELSE IF hashlock.res # Ok THEN EntryFailed(op, hashlock.res)
      ELSE IF maker_addr.res # Ok THEN EntryFailed(op, maker_addr.res)
      ELSE IF taker_addr.res # Ok THEN EntryFailed(op, taker_addr.res)
      ELSE \E sum \in add_u32(dst_cancellation, 1) :
        IF sum.panics THEN EntryFailed(op, Panic)
        ELSE LET timelocks ==
                   Timelocks_new(<< 0, 0, 0, 0, dst_withdrawal, dst_cancellation,
                                    sum.val >>, as_u32(now))
                 immutables ==
                   [ order_hash |-> order_hash.val, hashlock |-> hashlock.val,
                     maker |-> maker_addr.val, taker |-> taker_addr.val,
                     token |-> 0, amount |-> u64_to_u256(amount),
                     safety_deposit |-> u64_to_u256(0),
                     timelocks |-> timelocks ]
             IN  create_escrow_with_immutables(immutables, icp_recipient, None,
                                               evm_chain_id, evm_escrow_address)

\* withdraw_with_hex_secret
withdraw_with_hex_secret(escrow_id, secret_hex) ==
  LET secret == hex_to_bytes32(secret_hex) IN
  IF secret.res # Ok THEN EntryFailed("withdraw_with_hex_secret", secret.res)
  ELSE withdraw_with_secret(escrow_id, secret.val)

\* public_withdraw_with_hex_secret
public_withdraw_with_hex_secret(escrow_id, secret_hex) ==
  LET secret == hex_to_bytes32(secret_hex) IN
  IF secret.res # Ok
  THEN EntryFailed("public_withdraw_with_hex_secret", secret.res)
  ELSE public_withdraw_with_secret(escrow_id, secret.val)

\* The strings callers pass: each value of the small space spelled out, a
\* character that is no hex digit, and a string of the wrong length.
HexStrings == { << d >> : d \in HexDigits } \cup { << "g" >>, << >> }

\* The offsets callers pass, the largest u32 among them.
DstWithdrawals == { 0, 1 }
DstCancellations == { 1, 2, U32Mod - 1 }

CreateEscrowWithHexSecret ==
  \E order_hash_hex \in HexStrings, maker \in { << "1" >>, << "g" >> },
     dst_withdrawal \in DstWithdrawals, dst_cancellation \in DstCancellations :
    create_escrow_with_hex_secret(order_hash_hex, << ToString(Keccak256(0)) >>,
                                  maker, << "1" >>, 7, dst_withdrawal,
                                  dst_cancellation, "recipient", 84532,
                                  "0xescrow")

WithdrawWithHexSecret ==
  \E escrow_id \in EscrowIds, secret_hex \in HexStrings :
    withdraw_with_hex_secret(escrow_id, secret_hex)

PublicWithdrawWithHexSecret ==
  \E escrow_id \in EscrowIds, secret_hex \in HexStrings :
    public_withdraw_with_hex_secret(escrow_id, secret_hex)

NextHex ==
  \/ CreateEscrowWithHexSecret
  \/ WithdrawWithHexSecret
  \/ PublicWithdrawWithHexSecret
  \/ Cancel
  \/ Tick

SpecHex == Init /\ [][NextHex]_vars

\* ------------------------------------------------------- simple create
\* The 90 seconds create_simple_escrow adds to dst_withdrawal, and the four
\* source offsets it passes (10, 120, 121, 150), at the scale of U32Mod.
PublicWithdrawalDelay == 3
SimpleSrcStages == << 1, 4, 5, 6 >>

\* create_simple_escrow; its safety deposit of 1000000 is kept as 1.
create_simple_escrow(order_hash, hashlock, maker, taker, amount, dst_withdrawal, dst_cancellation, icp_recipient, evm_chain_id, evm_escrow_address) ==
  LET op == "create_simple_escrow"
      maker_addr == evm_address_to_bytes(maker)
      taker_addr == evm_address_to_bytes(taker)
      zero_addr == 0
  IN  IF maker_addr.res # Ok THEN EntryFailed(op, maker_addr.res)
      ELSE IF taker_addr.res # Ok THEN EntryFailed(op, taker_addr.res)
      ELSE \E sum \in add_u32(dst_withdrawal, PublicWithdrawalDelay) :
        IF sum.panics THEN EntryFailed(op, Panic)
        ELSE LET timelocks ==
                   Timelocks_new(SimpleSrcStages \o
                                   << dst_withdrawal, sum.val, dst_cancellation >>,
                                 as_u32(now))
                 immutables ==
                   [ order_hash |-> order_hash, hashlock |-> hashlock,
                     maker |-> maker_addr.val, taker |-> taker_addr.val,
                     token |-> zero_addr, amount |-> u64_to_u256(amount),
                     safety_deposit |-> u64_to_u256(1),
                     timelocks |-> timelocks ]
             IN  create_escrow_with_immutables(immutables, icp_recipient, None,
                                               evm_chain_id, evm_escrow_address)

\* The dst_withdrawal offsets callers pass: small ones, the first whose sum
\* with the delay passes the largest u32, and the largest u32.
SimpleDstWithdrawals == { 0, 1, U32Mod - PublicWithdrawalDelay, U32Mod - 1 }

CreateSimpleEscrow ==
  \E maker \in { << "1" >>, << "g" >>, << >> },
     dst_withdrawal \in SimpleDstWithdrawals :
    create_simple_escrow(1, Keccak256(0), maker, << "1" >>, 7, dst_withdrawal,
                         2, "recipient", 84532, "0xescrow")

NextSimple ==
  \/ CreateSimpleEscrow
  \/ Withdraw
  \/ PublicWithdraw
  \/ Cancel
  \/ Tick

SpecSimple == Init /\ [][NextSimple]_vars

\* ------------------------------------------------------------ liveness
\* The clock as it keeps running: past MaxTicks it is followed for as long as
\* a stored escrow that is neither withdrawn nor cancelled has its
\* DstCancellation stage time ahead.
TickLive ==
  /\ \/ \E t0 \in StartTimes : t0 <= now /\ now < t0 + MaxTicks
     \/ \E id \in DOMAIN escrows :
          /\ ~ escrows[id].withdrawn
          /\ ~ escrows[id].cancelled
          /\ now < Timelocks_get(escrows[id].immutables.timelocks, DstCancellation)
  /\ now' = now + 1
  /\ UNCHANGED << escrows, escrow_counter, calls, ledger_calls, last >>

\* The escrows followed to their end.
MaxLiveEscrows == 1

CreateEscrowLive == escrow_counter < MaxLiveEscrows /\ CreateEscrow

NextLive ==
  \/ CreateEscrowLive
  \/ Withdraw
  \/ PublicWithdraw
  \/ Cancel
  \/ SetAutoWithdraw
  \/ Monitor
  \/ AutoWithdraw
  \/ TransferReply
  \/ RpcReply
  \/ TickLive

\* What an accepted cancel_escrow call does to the store.
CancelAccepted(id) ==
  LET r == cancel_section(escrows, id, now) IN
  /\ r.res = Ok
  /\ escrows' = r.map

\* The clock advances, and a cancel call that would be accepted on an escrow
\* is eventually made.
Fairness ==
  /\ WF_now(TickLive)
  /\ \A id \in EscrowIds : WF_escrows(CancelAccepted(id))

SpecLive == Init /\ [][NextLive]_vars /\ Fairness

\* --------------------------------------------------------- read accessors
\* The result of a query, as `last` keeps it.
QueryResult(op, escrow_id, arg, res, val) ==
  [ op |-> op, phase |-> "call", id |-> escrow_id,
    reply |-> NoReply, arg |-> arg, res |-> res,
    val |-> val ]

\* Mutant: the record is taken out of the map instead of cloned.
get_escrow_state_take(escrow_id) ==
  /\ last' = QueryResult("get_escrow_state", escrow_id, 0, Ok,
                         IF escrow_id \in DOMAIN escrows
                         THEN Some(escrows[escrow_id]) ELSE None)
  /\ escrows' = [ k \in DOMAIN escrows \ { escrow_id } |-> escrows[k] ]
  /\ UNCHANGED << escrow_counter, now, calls, ledger_calls >>

\* get_escrow_state
get_escrow_state(escrow_id) ==
  /\ last' = QueryResult("get_escrow_state", escrow_id, 0, Ok,
                         IF escrow_id \in DOMAIN escrows
                         THEN Some(escrows[escrow_id]) ELSE None)
  /\ UNCHANGED << escrows, escrow_counter, now, calls, ledger_calls >>

\* list_all_escrows: the pairs of the map in the order its iterator yields
\* them, which the HashMap does not fix.
list_all_escrows ==
  /\ \E order \in [ 1 .. Cardinality(DOMAIN escrows) -> DOMAIN escrows ] :
       /\ \A i, j \in DOMAIN order : i # j => order[i] # order[j]
       /\ last' = QueryResult("list_all_escrows", 0, 0, Ok,
                              Some([ i \in DOMAIN order |->
                                       << order[i], escrows[order[i]] >> ]))
  /\ UNCHANGED << escrows, escrow_counter, now, calls, ledger_calls >>

\* get_escrow_immutables
get_escrow_immutables(escrow_id) ==
  /\ last' = QueryResult("get_escrow_immutables", escrow_id, 0, Ok,
                         IF escrow_id \in DOMAIN escrows
                         THEN Some(escrows[escrow_id].immutables) ELSE None)
  /\ UNCHANGED << escrows, escrow_counter, now, calls, ledger_calls >>

\* is_timelock_met
is_timelock_met(escrow_id, stage) ==
  /\ IF escrow_id \notin DOMAIN escrows
     THEN last' = QueryResult("is_timelock_met", escrow_id, stage,
                              ErrNotFound, None)
     ELSE LET current_time == now
              stage_time_ == Timelocks_get(escrows[escrow_id].immutables.timelocks, stage)
          IN  last' = QueryResult("is_timelock_met", escrow_id, stage, Ok,
                                  Some(current_time >= stage_time_))
  /\ UNCHANGED << escrows, escrow_counter, now, calls, ledger_calls >>

\* The names get_timelock_info gives to the stages, in its order.
StageNames == << "SrcWithdrawal", "SrcPublicWithdrawal", "SrcCancellation", "SrcPublicCancellation", "DstWithdrawal", "DstPublicWithdrawal", "DstCancellation" >>

\* get_timelock_info
get_timelock_info(escrow_id) ==
  /\ IF escrow_id \notin DOMAIN escrows
     THEN last' = QueryResult("get_timelock_info", escrow_id, 0, ErrNotFound,
                              None)
     ELSE LET current_time == now
              timelocks == escrows[escrow_id].immutables.timelocks
          IN  last' = QueryResult("get_timelock_info", escrow_id, 0, Ok,
                        Some([ i \in 1 .. 7 |->
                                 << StageNames[i],
                                    Timelocks_get(timelocks, i - 1),
                                    current_time >= Timelocks_get(timelocks, i - 1) >> ]))
  /\ UNCHANGED << escrows, escrow_counter, now, calls, ledger_calls >>

\* get_evm_monitoring_status
get_evm_monitoring_status(escrow_id) ==
  /\ IF escrow_id \notin DOMAIN escrows
     THEN last' = QueryResult("get_evm_monitoring_status", escrow_id, 0,
                              ErrNotFound, None)
     ELSE last' = QueryResult("get_evm_monitoring_status", escrow_id, 0, Ok,
                    Some(<< escrows[escrow_id].auto_withdraw_enabled,
                            escrows[escrow_id].evm_escrow_address,
                            escrows[escrow_id].evm_chain_id >>))
  /\ UNCHANGED << escrows, escrow_counter, now, calls, ledger_calls >>

\* get_current_timestamp
get_current_timestamp ==
  /\ last' = QueryResult("get_current_timestamp", 0, 0, Ok, Some(now))
  /\ UNCHANGED << escrows, escrow_counter, now, calls, ledger_calls >>

GetEscrowState == \E id \in EscrowIds : get_escrow_state(id)
ListAllEscrows == list_all_escrows
GetEscrowImmutables == \E id \in EscrowIds : get_escrow_immutables(id)
IsTimelockMet ==
  \E id \in EscrowIds, stage \in TimelockStage : is_timelock_met(id, stage)
GetTimelockInfo == \E id \in EscrowIds : get_timelock_info(id)
GetEvmMonitoringStatus == \E id \in EscrowIds : get_evm_monitoring_status(id)
GetCurrentTimestamp == get_current_timestamp

\* The lifecycle calls that write the store, with the queries between them.
NextReads ==
  \/ CreateEscrow
  \/ Withdraw
  \/ PublicWithdraw
  \/ Cancel
  \/ SetAutoWithdraw
  \/ TransferReply
  \/ Tick
  \/ GetEscrowState
  \/ ListAllEscrows
  \/ GetEscrowImmutables
  \/ IsTimelockMet
  \/ GetTimelockInfo
  \/ GetEvmMonitoringStatus
  \/ GetCurrentTimestamp

SpecReads == Init /\ [][NextReads]_vars

\* ------------------------------------------------------- the codec alone
\* Timelocks::new and Timelocks::get applied to arguments of their types:
\* u32 values at both ends of the range for every stage and for the
\* deployment timestamp.
U32Samples == { 0, 1, U32Mod - 1 }

InitCodec ==
  /\ escrows = << >>
  /\ escrow_counter = 0
  /\ now \in StartTimes
  /\ calls = [ c \in CallSlots |-> IdleCall ]
  /\ ledger_calls = << >>
  /\ \E stages \in [ 1 .. 7 -> U32Samples ], deployed_at \in U32Samples :
       last = [ op |-> "input", phase |-> "call", id |-> 0,
                reply |-> NoReply,
                arg |-> [ stages |-> stages, deployed_at |-> deployed_at ],
                res |-> Ok, val |-> None ]

\* Timelocks::new on the arguments drawn; last.val holds the packed word.
NewTimelocks ==
  /\ last.op = "input"
  /\ last' = [ last EXCEPT
                 !.op = "Timelocks::new",
                 !.val = Some(Timelocks_new(last.arg.stages, last.arg.deployed_at)) ]
  /\ UNCHANGED << escrows, escrow_counter, now, calls, ledger_calls >>

\* Timelocks::get on the packed word; last.val holds the time returned.
GetStage ==
  /\ last.op = "Timelocks::new"
  /\ \E stage \in TimelockStage :
       last' = [ last EXCEPT
                  !.op = "Timelocks::get",
                  !.id = stage,
                  !.val = Some(Timelocks_get(Unwrap(last.val), stage)) ]
  /\ UNCHANGED << escrows, escrow_counter, now, calls, ledger_calls >>

NextCodec ==
  \/ NewTimelocks
  \/ GetStage

SpecCodec == InitCodec /\ [][NextCodec]_vars

\* ------------------------------------------------- vocabulary of the claims
IsErr(res) == res \notin { Ok, Pending }

Terminal(e) == e.withdrawn \/ e.cancelled
Active(e) == ~ e.withdrawn /\ ~ e.cancelled

stage_time(e, stage) == Timelocks_get(e.immutables.timelocks, stage)

\* The step is a message execution (every step but the clock's is one), and
\* last' describes it.
Ran == now' = now

\* The step ran the checks of a withdrawal on escrow id with last'.arg as the
\* secret: a withdraw or public withdraw call, or an auto-withdraw whose
\* monitor has just returned a secret.
RestrictedAttempt(id) ==
  /\ Ran
  /\ last'.id = id
  /\ \/ last'.op = "withdraw_with_secret" /\ last'.phase = "call"
     \/ /\ last'.op = "auto_withdraw_on_evm_secret"
        /\ last'.phase = "rpc_reply"
        /\ IsSome(last'.val)

PublicAttempt(id) ==
  /\ Ran
  /\ last'.id = id
  /\ last'.op = "public_withdraw_with_secret"
  /\ last'.phase = "call"

CancelCall(id) ==
  Ran /\ last'.id = id /\ last'.op = "cancel_escrow" /\ last'.phase = "call"

\* The icrc1_transfer calls issued for escrow id.
TransfersOf(id) ==
  { i \in 1 .. Len(ledger_calls) : ledger_calls[i].escrow_id = id }

\* ------------------------------------------------------------------ C1
\* C1: withdrawn goes from false to true only in a withdraw step whose secret
\* hashes to the stored hashlock and whose time is at or past
\* stage_time(DstWithdrawal) on the restricted path (auto-withdraw included)
\* or stage_time(DstPublicWithdrawal) on the public path; a withdraw attempt
\* that misses either condition fails and leaves every record unchanged.
C1_WithdrawnOnlyByValidWithdraw ==
  [][ \A id \in DOMAIN escrows :
        LET e == escrows[id]
            secret_ok == verify_hashlock(last'.arg, e.immutables.hashlock)
        IN  /\ (~ e.withdrawn /\ escrows'[id].withdrawn) =>
                 /\ secret_ok
                 /\ escrows'[id].secret = Some(last'.arg)
                 /\ \/ RestrictedAttempt(id) /\ now >= stage_time(e, DstWithdrawal)
                    \/ PublicAttempt(id) /\ now >= stage_time(e, DstPublicWithdrawal)
            /\ ( /\ RestrictedAttempt(id)
                 /\ ~ (secret_ok /\ now >= stage_time(e, DstWithdrawal)) ) =>
                 IsErr(last'.res) /\ escrows' = escrows
            /\ ( /\ PublicAttempt(id)
                 /\ ~ (secret_ok /\ now >= stage_time(e, DstPublicWithdrawal)) ) =>
                 IsErr(last'.res) /\ escrows' = escrows
    ]_vars

\* A restricted withdrawal has just committed at exactly its stage time.
C1_Witness ==
  /\ last.op = "withdraw_with_secret"
  /\ last.phase = "call"
  /\ last.res \in { Ok, Pending }
  /\ last.id \in DOMAIN escrows
  /\ escrows[last.id].withdrawn
  /\ now = stage_time(escrows[last.id], DstWithdrawal)

\* ------------------------------------------------------------------ C2
\* C2: in every reachable state, whatever calls interleave and whatever call
\* is suspended on the ledger or on the log query, no escrow record has both
\* withdrawn and cancelled set.
C2_NeverWithdrawnAndCancelled ==
  \A id \in DOMAIN escrows : ~ (escrows[id].withdrawn /\ escrows[id].cancelled)

\* One escrow is withdrawn and another cancelled while a call is suspended.
C2_Witness ==
  /\ \E id \in DOMAIN escrows : escrows[id].withdrawn
  /\ \E id \in DOMAIN escrows : escrows[id].cancelled
  /\ \E c \in CallSlots : calls[c].await # "idle"

\* ------------------------------------------------------------------ C3
\* C3: Withdrawn and Cancelled are terminal: a record stays in the store, and
\* once its withdrawn flag is true it stays true, once its cancelled flag is
\* true it stays true, whatever step follows (a failed transfer included).
C3_TerminalFlagsStay ==
  [][ \A id \in DOMAIN escrows :
        /\ id \in DOMAIN escrows'
        /\ escrows[id].withdrawn => escrows'[id].withdrawn
        /\ escrows[id].cancelled => escrows'[id].cancelled
    ]_vars

\* The ledger has just refused the transfer of a withdrawn escrow.
C3_Witness ==
  /\ last.phase = "transfer_reply"
  /\ last.res = ErrTransferFailed
  /\ escrows[last.id].withdrawn
  /\ \E id \in DOMAIN escrows : escrows[id].cancelled

\* ------------------------------------------------------------------ C4
\* The step is a state-changing call on escrow id other than set_auto_withdraw:
\* a withdraw, public withdraw, cancel or auto-withdraw call, or the rest of
\* an auto-withdraw after its log query.
LifecycleCall(id) ==
  /\ Ran
  /\ last'.id = id
  /\ \/ /\ last'.phase = "call"
        /\ last'.op \in { "withdraw_with_secret", "public_withdraw_with_secret",
                          "cancel_escrow", "auto_withdraw_on_evm_secret" }
     \/ last'.phase = "rpc_reply" /\ last'.op = "auto_withdraw_on_evm_secret"

SetAutoCall(id) ==
  Ran /\ last'.id = id /\ last'.op = "set_auto_withdraw" /\ last'.phase = "call"

\* C4 as stated: once a record is withdrawn or cancelled, every further
\* state-changing call on it (set_auto_withdraw included) is rejected with an
\* error and leaves every field, auto_withdraw_enabled included, unchanged.
C4_TerminalRejectsEveryCall ==
  [][ \A id \in DOMAIN escrows :
        (Terminal(escrows[id]) /\ (LifecycleCall(id) \/ SetAutoCall(id))) =>
          IsErr(last'.res) /\ escrows' = escrows
    ]_vars

\* C4 as amended: once a record is withdrawn or cancelled, every further
\* withdraw, public withdraw, cancel and auto-withdraw on it is rejected with
\* an error and leaves the store unchanged; set_auto_withdraw is still
\* accepted and changes auto_withdraw_enabled and nothing else.
C4_TerminalRejectsLifecycleCalls ==
  [][ \A id \in DOMAIN escrows :
        /\ (Terminal(escrows[id]) /\ LifecycleCall(id)) =>
             IsErr(last'.res) /\ escrows' = escrows
        /\ (Terminal(escrows[id]) /\ SetAutoCall(id)) =>
             /\ last'.res = Ok
             /\ escrows' = [ escrows EXCEPT
                               ![id].auto_withdraw_enabled = (last'.arg = 1) ]
    ]_vars

\* set_auto_withdraw(id, false) has just been accepted on a terminal record.
C4_Witness ==
  /\ last.op = "set_auto_withdraw"
  /\ last.res = Ok
  /\ Terminal(escrows[last.id])
  /\ ~ escrows[last.id].auto_withdraw_enabled

\* ------------------------------------------------------------------ C5
\* C5: a withdraw (restricted or public) on a withdrawn escrow, a cancel on a
\* cancelled escrow and a cancel on a withdrawn escrow each return an error
\* and leave the store unchanged, for any secret and any time.
C5_RepeatedTerminalCallsRejected ==
  [][ \A id \in DOMAIN escrows :
        LET e == escrows[id]
            call == Ran /\ last'.id = id /\ last'.phase = "call"
        IN  /\ ( /\ e.withdrawn
                 /\ call
                 /\ last'.op \in { "withdraw_with_secret",
                                   "public_withdraw_with_secret" } ) =>
                 /\ IsErr(last'.res)
                 /\ UNCHANGED << escrows, escrow_counter, calls, ledger_calls >>
            /\ (Terminal(e) /\ call /\ last'.op = "cancel_escrow") =>
                 /\ IsErr(last'.res)
                 /\ UNCHANGED << escrows, escrow_counter, calls, ledger_calls >>
    ]_vars

\* A cancel has just been refused on a withdrawn escrow.
C5_Witness ==
  /\ last.op = "cancel_escrow"
  /\ last.res = ErrCancelWithdrawn
  /\ escrows[last.id].withdrawn

\* ------------------------------------------------------------------ C6
\* C6: cancel on an Active escrow sets cancelled exactly when the time is at
\* or past stage_time(DstCancellation); earlier it fails with the timelock
\* error and changes nothing; a successful cancel changes only the cancelled
\* flag, and every later cancel on that escrow is rejected.
C6_CancelGate ==
  [][ \A id \in DOMAIN escrows :
        LET e == escrows[id] IN
        /\ (CancelCall(id) /\ Active(e)) =>
             IF now >= stage_time(e, DstCancellation)
             THEN /\ last'.res = Ok
                  /\ escrows' = [ escrows EXCEPT ![id].cancelled = TRUE ]
                  /\ ~ escrows'[id].withdrawn
                  /\ escrows'[id].secret = None
             ELSE /\ last'.res = ErrDstCancellation
                  /\ escrows' = escrows
        /\ (CancelCall(id) /\ e.cancelled) =>
             IsErr(last'.res) /\ escrows' = escrows
    ]_vars

\* A cancel has just succeeded at exactly the cancellation stage time.
C6_Witness ==
  /\ last.op = "cancel_escrow"
  /\ last.res = Ok
  /\ escrows[last.id].cancelled
  /\ now = stage_time(escrows[last.id], DstCancellation)

\* ------------------------------------------------------------------ C7
\* C7 as stated: a withdraw (restricted, public or auto) never succeeds at a
\* time at or after the escrow's DstCancellation stage time.
C7_NoWithdrawOnceCancellationOpen ==
  [][ \A id \in DOMAIN escrows :
        (~ escrows[id].withdrawn /\ escrows'[id].withdrawn) =>
          now < stage_time(escrows[id], DstCancellation)
    ]_vars

\* ------------------------------------------------------------------ C8
\* C8: the ledger transfer is invoked at most once per escrow identifier and
\* never for a cancelled escrow; while a withdraw is suspended on its
\* transfer, and after it, the escrow has exactly one transfer.
C8_AtMostOneTransfer ==
  \A id \in EscrowIds :
    /\ Cardinality(TransfersOf(id)) <= 1
    /\ TransfersOf(id) # {} =>
         id \in DOMAIN escrows /\ ~ escrows[id].cancelled
    /\ \A c \in CallSlots :
         (calls[c].await = "transfer" /\ calls[c].id = id) =>
           Cardinality(TransfersOf(id)) = 1
    /\ ( /\ id \in DOMAIN escrows
         /\ escrows[id].withdrawn
         /\ IsSome(escrows[id].token_ledger) ) =>
         Cardinality(TransfersOf(id)) = 1

\* A second withdraw with the correct secret has just been refused while the
\* first is suspended on its transfer.
C8_Witness ==
  /\ last.op \in { "withdraw_with_secret", "public_withdraw_with_secret" }
  /\ last.phase = "call"
  /\ IsErr(last.res)
  /\ last.id \in DOMAIN escrows
  /\ verify_hashlock(last.arg, escrows[last.id].immutables.hashlock)
  /\ \E c \in CallSlots : calls[c].await = "transfer" /\ calls[c].id = last.id

\* ------------------------------------------------------------------ C9
\* C9: withdrawn and the revealed secret are committed in the step that
\* issues the transfer; when the ledger replies, with a failure or not, the
\* call returns the ledger's result and the record keeps withdrawn = true and
\* the secret.
C9_CommitBeforeTransfer ==
  [][ /\ ledger_calls' # ledger_calls =>
           LET t == ledger_calls'[Len(ledger_calls')] IN
           /\ ledger_calls' = Append(ledger_calls, t)
           /\ last'.res = Pending
           /\ last'.id = t.escrow_id
           /\ escrows'[t.escrow_id].withdrawn
           /\ escrows'[t.escrow_id].secret = Some(last'.arg)
      /\ (Ran /\ last'.phase = "transfer_reply") =>
           /\ last'.res \in TransferResults
           /\ escrows' = escrows
           /\ escrows'[last'.id].withdrawn
           /\ escrows'[last'.id].secret = Some(last'.arg)
    ]_vars

\* A withdraw has just returned the error of a failed ledger call, and the
\* record is still withdrawn with its secret.
C9_Witness ==
  /\ last.phase = "transfer_reply"
  /\ last.op = "withdraw_with_secret"
  /\ last.res = ErrLedgerCall
  /\ escrows[last.id].withdrawn
  /\ IsSome(escrows[last.id].secret)

\* ----------------------------------------------------------------- C10
\* C10 as stated: every successful cancel invokes the ledger exactly once, to
\* refund the escrow's amount to its maker, after cancelled is committed.
C10_CancelRefundsOnce ==
  \A id \in DOMAIN escrows :
    escrows[id].cancelled =>
      /\ Cardinality(TransfersOf(id)) = 1
      /\ \A i \in TransfersOf(id) :
           /\ ledger_calls[i].to = escrows[id].immutables.maker
           /\ ledger_calls[i].amount = u256_to_u64(escrows[id].immutables.amount)

\* ----------------------------------------------------------------- C11
\* The step is a create call; last'.arg holds its arguments.
CreateStep ==
  Ran /\ last'.op = "create_escrow_with_immutables" /\ last'.phase = "call"

\* C11: a create whose order_hash or hashlock is zero fails with the invalid
\* input error and changes nothing: no record is inserted and the counter is
\* not advanced; a create that succeeds returns the identifier that follows
\* the counter, so a failed create before it does not change that identifier.
C11_InvalidCreateNoMutation ==
  [][ CreateStep =>
        IF \/ last'.arg.immutables.order_hash = 0
           \/ last'.arg.immutables.hashlock = 0
        THEN /\ last'.res = ErrInvalidInput
             /\ UNCHANGED << escrows, escrow_counter, calls, ledger_calls >>
        ELSE /\ last'.res = Ok
             /\ last'.id = escrow_counter + 1
             /\ last'.id = Cardinality(DOMAIN escrows) + 1
    ]_vars

\* A create with a zero hashlock has just failed after one create succeeded,
\* and the counter still stands at one.
C11_Witness ==
  /\ last.op = "create_escrow_with_immutables"
  /\ last.res = ErrInvalidInput
  /\ last.arg.immutables.hashlock = 0
  /\ last.arg.immutables.order_hash # 0
  /\ DOMAIN escrows = { 1 }
  /\ escrow_counter = 1

\* ----------------------------------------------------------------- C12
\* The offset packed for a stage, without the deployment field.
stage_offset(timelocks, stage) == from_be_bytes(slice4(timelocks, stage * 4))

\* C12 as stated: a successful create inserts exactly one new record, Active,
\* without secret, with auto_withdraw_enabled, whose seven stage offsets are
\* the caller's and whose timelock deployment field is the local creation
\* time whatever the caller had packed; the records already stored are
\* unchanged.
C12_CreateInsertsActiveRecord ==
  [][ (CreateStep /\ last'.res = Ok) =>
        LET id == last'.id
            supplied == last'.arg.immutables.timelocks
        IN  /\ id \notin DOMAIN escrows
            /\ DOMAIN escrows' = DOMAIN escrows \cup { id }
            /\ \A k \in DOMAIN escrows : escrows'[k] = escrows[k]
            /\ Active(escrows'[id])
            /\ escrows'[id].secret = None
            /\ escrows'[id].auto_withdraw_enabled
            /\ \A stage \in TimelockStage :
                 stage_offset(escrows'[id].immutables.timelocks, stage)
                   = stage_offset(supplied, stage)
            /\ Timelocks_deployed_at(escrows'[id].immutables.timelocks) = now
    ]_vars

\* ----------------------------------------------------------------- C13
\* C13: identifiers are never reused or deleted: a successful create returns
\* an identifier that no earlier create returned (the identifiers returned so
\* far are those up to the counter, all of them in the store), it does not
\* overwrite a stored record, and no step removes an identifier from the store.
C13_IdentifiersNeverReused ==
  [][ /\ DOMAIN escrows \subseteq DOMAIN escrows'
      /\ DOMAIN escrows' = 1 .. escrow_counter'
      /\ (CreateStep /\ last'.res = Ok) =>
           /\ last'.id \notin 1 .. escrow_counter
           /\ last'.id \notin DOMAIN escrows
           /\ DOMAIN escrows' = DOMAIN escrows \cup { last'.id }
           /\ \A k \in DOMAIN escrows : escrows'[k] = escrows[k]
      /\ ~ (CreateStep /\ last'.res = Ok) => DOMAIN escrows' = DOMAIN escrows
    ]_vars

\* A second create has just succeeded while the first escrow is withdrawn.
C13_Witness ==
  /\ last.op = "create_escrow_with_immutables"
  /\ last.res = Ok
  /\ last.id = 2
  /\ DOMAIN escrows = { 1, 2 }
  /\ escrows[1].withdrawn
  /\ Active(escrows[2])

\* ----------------------------------------------------------------- C14
\* C14: for seven 32-bit offsets, a 32-bit deployment timestamp t and any of
\* the seven stages, the stage time read from the packed word is the exact
\* sum of t and that stage's offset, beyond 32 bits where the sum is, and
\* whatever the other stages hold.
C14_StageTimeIsExactSum ==
  last.op = "Timelocks::get" =>
    Unwrap(last.val) = last.arg.deployed_at + last.arg.stages[last.id + 1]

\* The last stage has been read with both its offset and the timestamp at the
\* largest u32, next to a stage whose offset is zero.
C14_Witness ==
  /\ last.op = "Timelocks::get"
  /\ last.id = DstCancellation
  /\ last.arg.stages[DstCancellation + 1] = U32Mod - 1
  /\ last.arg.stages[DstPublicWithdrawal + 1] = 0
  /\ last.arg.deployed_at = U32Mod - 1
  /\ Unwrap(last.val) = 2 * U32Mod - 2

\* ----------------------------------------------------------------- C15
\* The remote query failed: the call or the RPC service failed, the response
\* does not parse, or its error field is populated.
QueryFailed(reply) == reply.kind # "json" \/ reply.error

\* The step is the continuation of a monitor call; last'.reply is the reply of
\* the remote query and last'.val what monitor returns.
MonitorReply ==
  /\ Ran
  /\ last'.op = "monitor_evm_secret_revelation"
  /\ last'.phase = "rpc_reply"

\* C15 as stated: monitor returns an error whenever the remote query failed
\* (transport failure, unparseable response, or populated error field), and
\* returns Ok(None) only for a response without error in which no log matches.
C15_MonitorSurfacesQueryFailure ==
  [][ MonitorReply =>
        /\ QueryFailed(last'.reply) => IsErr(last'.res)
        /\ (last'.res = Ok /\ last'.val = None) => ~ QueryFailed(last'.reply)
    ]_vars

\* ----------------------------------------------------------------- C16
\* The entry carries a third topic of 32 bytes that hashes to the hashlock.
Qualifies(log, hashlock) ==
  log.ntopics >= 3 /\ log.decodes /\ verify_hashlock(log.topic2, hashlock)

\* C16: when the response carries a list of log entries, monitor returns the
\* third topic of the first entry of the list that qualifies against the
\* hashlock stored for the escrow, and None when no entry qualifies; a secret
\* it returns verifies against the stored hashlock, whatever entries stand
\* before or after the match.
C16_MonitorReturnsFirstMatch ==
  [][ ( /\ MonitorReply
        /\ last'.reply.kind = "json"
        /\ IsSome(last'.reply.result) ) =>
        LET logs == Unwrap(last'.reply.result)
            hashlock == escrows[last'.id].immutables.hashlock
            matches == { i \in 1 .. Len(logs) : Qualifies(logs[i], hashlock) }
        IN  /\ last'.res = Ok
            /\ IF matches = {}
               THEN last'.val = None
               ELSE LET first == CHOOSE i \in matches : \A j \in matches : i <= j
                    IN  /\ last'.val = Some(logs[first].topic2)
                        /\ verify_hashlock(Unwrap(last'.val), hashlock)
    ]_vars

\* Monitor has just returned the secret of an entry that stands second in
\* the list, after an entry whose third topic does not hash to the hashlock.
C16_Witness ==
  /\ last.op = "monitor_evm_secret_revelation"
  /\ last.phase = "rpc_reply"
  /\ last.res = Ok
  /\ IsSome(last.val)
  /\ Len(Unwrap(last.reply.result)) = 2
  /\ Unwrap(last.reply.result)[1].ntopics = 3
  /\ Unwrap(last.reply.result)[1].decodes
  /\ ~ verify_hashlock(Unwrap(last.reply.result)[1].topic2,
                       escrows[last.id].immutables.hashlock)
  /\ Unwrap(last.reply.result)[2].topic2 = Unwrap(last.val)

\* ----------------------------------------------------------------- C17
\* The calls suspended on the remote log query.
RpcPending == { c \in CallSlots : calls[c].await = "rpc" }

\* C17: a monitor call on a missing identifier or on a withdrawn or cancelled
\* escrow returns an error and issues no remote query; on an Active escrow it
\* issues one; and no step of monitor, the call or the continuation on any
\* reply, changes the store, the counter or the ledger calls.
C17_MonitorPreconditionsAndFrame ==
  [][ (Ran /\ last'.op = "monitor_evm_secret_revelation") =>
        /\ UNCHANGED << escrows, escrow_counter, ledger_calls >>
        /\ last'.phase = "call" =>
             IF last'.id \notin DOMAIN escrows
             THEN last'.res = ErrNotFound /\ calls' = calls
             ELSE IF Terminal(escrows[last'.id])
             THEN last'.res = ErrAlreadyCompleted /\ calls' = calls
             ELSE /\ last'.res = Pending
                  /\ \E c \in CallSlots \ RpcPending :
                       /\ calls'[c].await = "rpc"
                       /\ calls'[c].id = last'.id
                       /\ \A d \in CallSlots \ { c } : calls'[d] = calls[d]
    ]_vars

\* Monitor has just been refused on a cancelled escrow, with no call suspended.
C17_Witness ==
  /\ last.op = "monitor_evm_secret_revelation"
  /\ last.phase = "call"
  /\ last.res = ErrAlreadyCompleted
  /\ escrows[last.id].cancelled
  /\ \A c \in CallSlots : calls[c].await = "idle"

\* ----------------------------------------------------------------- C18
\* C18: an auto-withdraw call on an escrow whose auto_withdraw_enabled is
\* false fails and issues no remote query.  When the monitor of an enabled
\* call returns a secret, the continuation is the restricted withdraw: the
\* same checks in the same order with the DstWithdrawal gate, and on success
\* withdrawn and the secret are set and the transfer issued if the escrow has
\* a ledger.  When the monitor returns no secret, the call returns the "no
\* secret yet" error, the store is unchanged and the call holds no slot, so
\* that a later auto-withdraw on the escrow meets the same conditions.
C18_AutoWithdrawIsRestrictedWithdraw ==
  [][ (Ran /\ last'.op = "auto_withdraw_on_evm_secret") =>
        LET id == last'.id IN
        /\ last'.phase = "call" =>
             /\ UNCHANGED << escrows, escrow_counter, ledger_calls >>
             /\ IF id \notin DOMAIN escrows
                THEN last'.res = ErrNotFound /\ calls' = calls
                ELSE IF ~ escrows[id].auto_withdraw_enabled
                THEN last'.res = ErrAutoDisabled /\ calls' = calls
                ELSE IF Terminal(escrows[id])
                THEN last'.res = ErrAlreadyCompleted /\ calls' = calls
                ELSE /\ last'.res = Pending
                     /\ \E c \in CallSlots \ RpcPending :
                          calls'[c].await = "rpc" /\ calls'[c].id = id
        /\ (last'.phase = "rpc_reply" /\ ~ IsSome(last'.val)) =>
             /\ last'.res = IF QueryFailed(last'.reply) /\ last'.reply.kind # "json"
                            THEN monitor_result(last'.reply, 0).res
                            ELSE ErrNoSecret
             /\ UNCHANGED << escrows, escrow_counter, ledger_calls >>
             /\ Cardinality({ c \in CallSlots : calls'[c].await = "idle" })
                  = Cardinality(FreeSlots) + 1
        /\ (last'.phase = "rpc_reply" /\ IsSome(last'.val)) =>
             LET e == escrows[id]
                 secret == last'.arg
             IN  /\ last'.val = Some(secret)
                 /\ IF e.withdrawn
                    THEN last'.res = ErrAlreadyWithdrawn /\ escrows' = escrows
                    ELSE IF e.cancelled
                    THEN last'.res = ErrAlreadyCancelled /\ escrows' = escrows
                    ELSE IF ~ verify_hashlock(secret, e.immutables.hashlock)
                    THEN last'.res = ErrInvalidSecret /\ escrows' = escrows
                    ELSE IF now < stage_time(e, DstWithdrawal)
                    THEN last'.res = ErrDstWithdrawal /\ escrows' = escrows
                    ELSE /\ escrows' = [ escrows EXCEPT
                                           ![id].withdrawn = TRUE,
                                           ![id].secret = Some(secret) ]
                         /\ IF IsSome(e.token_ledger)
                            THEN /\ last'.res = Pending
                                 /\ Len(ledger_calls') = Len(ledger_calls) + 1
                                 /\ ledger_calls'[Len(ledger_calls')].escrow_id = id
                            ELSE /\ last'.res = Ok
                                 /\ ledger_calls' = ledger_calls
                 /\ IsErr(last'.res) => ledger_calls' = ledger_calls
    ]_vars

\* An auto-withdraw has just committed the withdrawal with the secret its
\* monitor returned, at exactly the DstWithdrawal stage time.
C18_Witness ==
  /\ last.op = "auto_withdraw_on_evm_secret"
  /\ last.phase = "rpc_reply"
  /\ last.res \in { Ok, Pending }
  /\ last.val = Some(last.arg)
  /\ escrows[last.id].withdrawn
  /\ escrows[last.id].secret = last.val
  /\ escrows[last.id].auto_withdraw_enabled
  /\ now = stage_time(escrows[last.id], DstWithdrawal)

\* ----------------------------------------------------------------- C19
\* C19: set_auto_withdraw(id, enabled) on a stored record, whatever its state,
\* returns Ok and sets auto_withdraw_enabled to enabled, leaving the flags,
\* the secret, the immutables and every other record as they were; on a
\* missing identifier it fails with the not-found error and the store is
\* unchanged.  Neither case touches the counter, the suspended calls or the
\* ledger.
C19_SetAutoWithdrawFrame ==
  [][ \A id \in EscrowIds :
        SetAutoCall(id) =>
          /\ IF id \in DOMAIN escrows
             THEN /\ last'.res = Ok
                  /\ escrows'[id].auto_withdraw_enabled = (last'.arg = 1)
                  /\ escrows' = [ escrows EXCEPT ![id].auto_withdraw_enabled =
                                                  escrows'[id].auto_withdraw_enabled ]
             ELSE last'.res = ErrNotFound /\ escrows' = escrows
          /\ UNCHANGED << escrow_counter, calls, ledger_calls >>
    ]_vars

\* set_auto_withdraw(id, false) has just been accepted on an Active escrow
\* while an auto-withdraw on it is suspended on the remote query.
C19_Witness ==
  /\ last.op = "set_auto_withdraw"
  /\ last.res = Ok
  /\ last.arg = 0
  /\ Active(escrows[last.id])
  /\ ~ escrows[last.id].auto_withdraw_enabled
  /\ \E c \in CallSlots :
       /\ calls[c].op = "auto_withdraw_on_evm_secret"
       /\ calls[c].await = "rpc"
       /\ calls[c].id = last.id

\* ----------------------------------------------------------------- C20
\* C20: no step removes a stored record or changes its immutables (order
\* hash, hashlock, maker, taker, token, amount, safety deposit, timelocks with
\* the deployment field), its recipient, its ledger, its deployed_at or the
\* chain id and address of its counterpart.
C20_CreationFieldsNeverChange ==
  [][ \A id \in DOMAIN escrows :
        /\ id \in DOMAIN escrows'
        /\ escrows'[id].immutables = escrows[id].immutables
        /\ escrows'[id].icp_recipient = escrows[id].icp_recipient
        /\ escrows'[id].token_ledger = escrows[id].token_ledger
        /\ escrows'[id].deployed_at = escrows[id].deployed_at
        /\ escrows'[id].evm_chain_id = escrows[id].evm_chain_id
        /\ escrows'[id].evm_escrow_address = escrows[id].evm_escrow_address
    ]_vars

\* One escrow has been withdrawn and paid, another cancelled after its
\* auto-withdrawal was switched off, and both still carry what create stored.
C20_Witness ==
  /\ DOMAIN escrows = { 1, 2 }
  /\ escrows[1].withdrawn
  /\ Len(ledger_calls) = 1
  /\ escrows[2].cancelled
  /\ ~ escrows[2].auto_withdraw_enabled
  /\ \A id \in { 1, 2 } :
       /\ escrows[id].immutables.amount = IF id = 1 THEN U64Mod + 7 ELSE 7
       /\ Timelocks_deployed_at(escrows[id].immutables.timelocks)
            = escrows[id].deployed_at

\* ----------------------------------------------------------------- C21
\* C21 as stated: for every stored escrow, every secret and the current time,
\* if a public withdraw would succeed then a restricted withdraw with the
\* same arguments would succeed too: the public stage time of every stored
\* escrow is at or after its restricted stage time.
C21_PublicGateIsLater ==
  \A id \in DOMAIN escrows :
    /\ stage_time(escrows[id], DstPublicWithdrawal)
         >= stage_time(escrows[id], DstWithdrawal)
    /\ \A secret \in Bytes32 :
         public_withdraw_section(escrows, id, secret, now).res = Ok =>
           withdraw_section(escrows, id, secret, now).res = Ok

\* C21 as amended: the two paths differ in the stage of their gate only.  For
\* a stored escrow whose public stage time is at or after its restricted one,
\* a public withdraw that would succeed implies that the restricted withdraw
\* with the same arguments would succeed; create does not order the offsets,
\* and for an escrow whose public stage time is the earlier one the
\* restricted withdraw can fail, with the DstWithdrawal timelock error only.
C21_PublicGateIsLaterWhenOrdered ==
  \A id \in DOMAIN escrows :
    \A secret \in Bytes32 :
      public_withdraw_section(escrows, id, secret, now).res = Ok =>
        IF stage_time(escrows[id], DstPublicWithdrawal)
             >= stage_time(escrows[id], DstWithdrawal)
        THEN withdraw_section(escrows, id, secret, now).res = Ok
        ELSE withdraw_section(escrows, id, secret, now).res
               \in { Ok, ErrDstWithdrawal }

\* A public withdraw has just committed, at its stage time, on an escrow
\* whose public stage is the later one.
C21_Witness ==
  /\ last.op = "public_withdraw_with_secret"
  /\ last.res \in { Ok, Pending }
  /\ escrows[last.id].withdrawn
  /\ now = stage_time(escrows[last.id], DstPublicWithdrawal)
  /\ stage_time(escrows[last.id], DstPublicWithdrawal)
       > stage_time(escrows[last.id], DstWithdrawal)

\* ----------------------------------------------------------------- C22
\* The error a withdraw on escrow id must report with the checks taken in the
\* order record, withdrawn, cancelled, secret, gate; Ok if all pass.
FirstFailingCheck(id, secret, gate, gate_error) ==
  IF id \notin DOMAIN escrows THEN ErrNotFound
  ELSE IF escrows[id].withdrawn THEN ErrAlreadyWithdrawn
  ELSE IF escrows[id].cancelled THEN ErrAlreadyCancelled
  ELSE IF ~ verify_hashlock(secret, escrows[id].immutables.hashlock)
    THEN ErrInvalidSecret
  ELSE IF now < stage_time(escrows[id], gate) THEN gate_error
  ELSE Ok

\* C22 as stated: a withdraw of either level reports the first failing check
\* in the order missing record, withdrawn, cancelled, wrong secret, time
\* before the gate, each with its own error; on a withdrawn escrow the error
\* is the already-withdrawn one, different from the already-cancelled one.
C22_WithdrawErrorOrder ==
  [][ \A id \in EscrowIds :
        /\ RestrictedAttempt(id) =>
             LET expected == FirstFailingCheck(id, last'.arg, DstWithdrawal,
                                               ErrDstWithdrawal)
             IN  IF expected = Ok THEN ~ IsErr(last'.res)
                 ELSE last'.res = expected
        /\ PublicAttempt(id) =>
             LET expected == FirstFailingCheck(id, last'.arg,
                                               DstPublicWithdrawal,
                                               ErrDstPublicWithdrawal)
             IN  IF expected = Ok THEN ~ IsErr(last'.res)
                 ELSE last'.res = expected
    ]_vars

\* ----------------------------------------------------------------- C23
\* C23 as stated: for an escrow created at time T (its deployed_at) with
\* DstWithdrawal offset d, a restricted withdraw with the correct secret on
\* the Active escrow fails with the timelock error at every time before T + d
\* and commits withdrawn at every time from T + d on; once it has committed,
\* a further restricted withdraw fails with the already-withdrawn error.
C23_RestrictedGateScenario ==
  [][ \A id \in DOMAIN escrows :
        LET e == escrows[id]
            T == e.deployed_at
            d == stage_offset(e.immutables.timelocks, DstWithdrawal)
        IN  ( /\ Ran
              /\ last'.op = "withdraw_with_secret"
              /\ last'.phase = "call"
              /\ last'.id = id
              /\ verify_hashlock(last'.arg, e.immutables.hashlock) ) =>
              /\ Active(e) =>
                   IF now < T + d
                   THEN last'.res = ErrDstWithdrawal /\ escrows' = escrows
                   ELSE ~ IsErr(last'.res) /\ escrows'[id].withdrawn
              /\ e.withdrawn =>
                   last'.res = ErrAlreadyWithdrawn /\ escrows' = escrows
    ]_vars

\* ----------------------------------------------------------------- C24
\* C24 as stated: for every stored escrow the deployment field packed in its
\* timelocks equals its deployed_at, and the time of every stage is
\* deployed_at plus the offset of the stage, whatever the clock read at
\* creation, beyond 32 bits included.
C24_StageTimeFromDeployedAt ==
  \A id \in DOMAIN escrows :
    LET e == escrows[id] IN
    /\ Timelocks_deployed_at(e.immutables.timelocks) = e.deployed_at
    /\ \A stage \in TimelockStage :
         stage_time(e, stage)
           = e.deployed_at + stage_offset(e.immutables.timelocks, stage)

\* ----------------------------------------------------------------- C25
ReadOps == { "get_escrow_state", "list_all_escrows", "get_escrow_immutables", "is_timelock_met", "get_timelock_info", "get_evm_monitoring_status", "get_current_timestamp" }

\* C25: a read accessor leaves the store, the counter, the suspended calls
\* and the ledger calls unchanged; get_escrow_state returns the stored record
\* (None for a missing identifier), so that a second call with no write in
\* between returns the value of the first.
C25_ReadsChangeNothing ==
  [][ (Ran /\ last'.op \in ReadOps) =>
        /\ UNCHANGED << escrows, escrow_counter, calls, ledger_calls >>
        /\ last'.op = "get_escrow_state" =>
             /\ last'.val = IF last'.id \in DOMAIN escrows
                            THEN Some(escrows[last'.id]) ELSE None
             /\ (last.op = "get_escrow_state" /\ last.id = last'.id) =>
                  last'.val = last.val
    ]_vars

\* get_timelock_info has just been answered for a withdrawn escrow whose
\* DstCancellation stage is met, with another escrow in the store.
C25_Witness ==
  /\ last.op = "get_timelock_info"
  /\ last.res = Ok
  /\ escrows[last.id].withdrawn
  /\ Unwrap(last.val)[7][3]
  /\ DOMAIN escrows = { 1, 2 }

\* ----------------------------------------------------------------- C26
\* C26: in every reachable state, a withdraw suspended on its transfer or
\* not, the revealed secret of an escrow is present exactly when withdrawn is
\* true, a present secret hashes to the hashlock of the escrow, and a
\* cancelled escrow has no revealed secret.
C26_SecretIffWithdrawn ==
  \A id \in DOMAIN escrows :
    LET e == escrows[id] IN
    /\ IsSome(e.secret) <=> e.withdrawn
    /\ IsSome(e.secret) => verify_hashlock(Unwrap(e.secret), e.immutables.hashlock)
    /\ e.cancelled => e.secret = None

\* A public withdraw is suspended on its transfer with the secret already in
\* the record, next to a cancelled escrow.
C26_Witness ==
  /\ \E c \in CallSlots :
       /\ calls[c].await = "transfer"
       /\ calls[c].op = "public_withdraw_with_secret"
       /\ escrows[calls[c].id].withdrawn
       /\ escrows[calls[c].id].secret = Some(calls[c].arg)
  /\ \E id \in DOMAIN escrows : escrows[id].cancelled

\* ----------------------------------------------------------------- C27
\* C27: with the clock advancing and accepted cancel calls eventually made,
\* every escrow in the store eventually is withdrawn or cancelled, whatever
\* other calls and replies interleave.
C27_EveryEscrowEventuallyTerminal ==
  \A id \in EscrowIds :
    (id \in DOMAIN escrows) ~> (id \in DOMAIN escrows /\ Terminal(escrows[id]))

\* An escrow created at the last time the model creates one has just been
\* cancelled, at its DstCancellation stage time.
C27_Witness ==
  /\ last.op = "cancel_escrow"
  /\ last.res = Ok
  /\ escrows[last.id].cancelled
  /\ escrows[last.id].deployed_at >= MaxTicks
  /\ now = stage_time(escrows[last.id], DstCancellation)
  /\ now > MaxTicks

\* ----------------------------------------------------------------- C28
\* The step is a create_escrow_with_hex_secret call with dst_withdrawal = w
\* and dst_cancellation = c that stored the escrow last'.id.
HexCreated(w, c) ==
  /\ last'.op = "create_escrow_with_immutables"
  /\ last'.res = Ok
  /\ \E order_hash_hex \in HexStrings, maker \in HexStrings :
       create_escrow_with_hex_secret(order_hash_hex,
                                     << ToString(Keccak256(0)) >>, maker,
                                     << "1" >>, 7, w, c, "recipient", 84532,
                                     "0xescrow")

\* C28 as stated: an escrow created through create_escrow_with_hex_secret at
\* time T with dst_withdrawal = w and dst_cancellation = c has the stage
\* times DstWithdrawal = T + w, DstCancellation = T + c and
\* DstPublicWithdrawal = T + c + 1, and a cancel of it while it is neither
\* withdrawn nor cancelled is accepted at every time from T + c on.
C28_HexSecretStageTimes ==
  [][ \A w \in DstWithdrawals, c \in DstCancellations :
        HexCreated(w, c) =>
          LET id == last'.id
              e == escrows'[id]
              T == now
          IN  /\ stage_time(e, DstWithdrawal) = T + w
              /\ stage_time(e, DstCancellation) = T + c
              /\ stage_time(e, DstPublicWithdrawal) = T + c + 1
              /\ \A t \in T + c .. T + c + MaxTicks :
                   cancel_section(escrows', id, t).res = Ok
    ]_vars

\* ----------------------------------------------------------------- C29
\* The step is a create_simple_escrow call with dst_withdrawal = w whose
\* address strings parse.
SimpleCall(w) ==
  /\ last'.op \in { "create_simple_escrow", "create_escrow_with_immutables" }
  /\ \E maker \in { << "1" >> } :
       create_simple_escrow(1, Keccak256(0), maker, << "1" >>, 7, w, 2,
                            "recipient", 84532, "0xescrow")

\* C29 as stated: for every dst_withdrawal of 32 bits the call is not aborted
\* by an overflow of dst_withdrawal + 90, and the escrow it stores has
\* stage_time(DstPublicWithdrawal) = stage_time(DstWithdrawal) + 90, so that
\* the public gate is never earlier than the restricted one.
C29_SimplePublicGateIsDelayed ==
  [][ \A w \in SimpleDstWithdrawals :
        SimpleCall(w) =>
          /\ last'.res = Ok
          /\ LET e == escrows'[last'.id] IN
             /\ stage_time(e, DstPublicWithdrawal)
                  = stage_time(e, DstWithdrawal) + PublicWithdrawalDelay
             /\ stage_time(e, DstPublicWithdrawal) >= stage_time(e, DstWithdrawal)
    ]_vars

\* ----------------------------------------------------------------- C30
\* C30 as stated: in the step in which an auto_withdraw call sets withdrawn
\* on an escrow, the escrow's auto_withdraw_enabled flag is true, whatever
\* set_auto_withdraw calls were admitted while the call was suspended on the
\* remote log query.
C30_AutoWithdrawOnlyWhileEnabled ==
  [][ \A id \in DOMAIN escrows :
        ( /\ Ran
          /\ last'.op = "auto_withdraw_on_evm_secret"
          /\ last'.id = id
          /\ ~ escrows[id].withdrawn
          /\ escrows'[id].withdrawn ) =>
          /\ escrows[id].auto_withdraw_enabled
          /\ escrows'[id].auto_withdraw_enabled
    ]_vars

\* ----------------------------------------------------------------- C31
\* C31: a step issues at most one ledger transfer; the step that issues one
\* is a withdraw (restricted, public or auto) that leaves the escrow of the
\* transfer withdrawn, and the transfer goes to the record's recipient on the
\* record's ledger with the low 64 bits of immutables.amount; a step that
\* withdraws an escrow without a ledger issues no transfer and returns Ok.
C31_TransferFollowsRecord ==
  [][ /\ ledger_calls' # ledger_calls =>
           LET t == ledger_calls'[Len(ledger_calls')]
               e == escrows'[t.escrow_id]
           IN  /\ ledger_calls' = Append(ledger_calls, t)
               /\ last'.op \in { "withdraw_with_secret",
                                 "public_withdraw_with_secret",
                                 "auto_withdraw_on_evm_secret" }
               /\ last'.id = t.escrow_id
               /\ ~ escrows[t.escrow_id].withdrawn
               /\ e.withdrawn
               /\ e.token_ledger = Some(t.ledger)
               /\ t.to = e.icp_recipient
               /\ t.amount = e.immutables.amount % U64Mod
      /\ \A id \in DOMAIN escrows :
           ( /\ ~ escrows[id].withdrawn
             /\ escrows'[id].withdrawn
             /\ ~ IsSome(escrows[id].token_ledger) ) =>
             /\ ledger_calls' = ledger_calls
             /\ last'.id = id
             /\ last'.res = Ok
    ]_vars

\* The escrow of a ledger token whose amount does not fit 64 bits has been
\* withdrawn with one transfer of the low 64 bits, and a public withdraw of
\* the escrow of the native asset has just returned Ok without a transfer.
C31_Witness ==
  /\ DOMAIN escrows = { 1, 2 }
  /\ escrows[1].withdrawn
  /\ escrows[1].immutables.amount >= U64Mod
  /\ Len(ledger_calls) = 1
  /\ ledger_calls[1].escrow_id = 1
  /\ ledger_calls[1].amount = escrows[1].immutables.amount - U64Mod
  /\ ~ IsSome(escrows[2].token_ledger)
  /\ escrows[2].withdrawn
  /\ last.op = "public_withdraw_with_secret"
  /\ last.id = 2
  /\ last.res = Ok

====
